---- MODULE Spec2Model ----
(***************************************************************************)
(* Model of the solana-transaction-builder library: the signature          *)
(* registry (SignatureBuilder), the TransactionBuilder with its            *)
(* instruction packs, and the two draining iterators (Sequence and         *)
(* CombinedSequence).                                                      *)
(*                                                                         *)
(* Pubkeys are small integers (ordered as the 32-byte keys are), an        *)
(* Option<T> is a sequence of length 0 (None) or 1 (Some), and a           *)
(* (Instruction, Option<String>) tuple is a pair <<ix, desc>>.             *)
(***************************************************************************)
EXTENDS Integers, Sequences, FiniteSets, TLC

\* Bounds of the model: instructions held by the builder, completed packs held.
MaxHeld == 2
MaxPacks == 2

\* Instructions of a transaction handed to a SignatureBuilder of its own.
MaxProbe == 2

\* Entries of a batch handed to the execution driver.
MaxBatch == 3

\* Tasks that call get_latest_blockhash, and the seconds the clock runs.
MaxCallers == 3
MaxTime == 15

\* Batches sent to a spawned executor loop.
MaxSubmitted == 6

\* Batches sent to a spawned simulator, and the entries of one of them.
MaxSimulated == 2
MaxEntries == 2

\* Instructions given to one bulk call, and held by the builder it is made on.
MaxBulk == 2

MaxBulkHeld == 3

\* Tasks signing at once, and signers of one shareable transaction.
MaxSigningTasks == 2

MaxSigners == 2

\* Instances of one shareable transaction: the original and its clones.
MaxInstances == 2

None == <<>>
Some(x) == <<x>>

\* Inputs ------------------------------------------------------------------

Keys == {1, 2, 3}
FeePayers == {1}
MaxSizes == {0, 100, 180, 210}

AccountMeta(k, s, w) == [pubkey |-> k, is_signer |-> s, is_writable |-> w]

Instruction(p, accounts, data) == [program_id |-> p, accounts |-> accounts, data |-> data]

\* No account; no account and 8 bytes of data; two signers, the larger key
\* first; a writable non-signer and the fee-payer as a readonly signer.
Instructions ==
    { Instruction(0, <<>>, <<>>),
      Instruction(0, <<>>, <<0, 0, 0, 0, 0, 0, 0, 0>>),
      Instruction(0, <<AccountMeta(3, TRUE, FALSE), AccountMeta(2, TRUE, TRUE)>>, <<>>),
      Instruction(0, <<AccountMeta(3, FALSE, TRUE), AccountMeta(1, TRUE, FALSE)>>, <<>>) }

DescriptionTexts == {"d"}

\* solana_sdk: Message::new / Transaction::new_with_payer -------------------

RECURSIVE SortedKeys(_)
SortedKeys(S) ==
    IF S = {} THEN <<>>
    ELSE LET m == CHOOSE x \in S : \A y \in S : x <= y
         IN  <<m>> \o SortedKeys(S \ {m})

Metas(instructions) ==
    UNION { { instructions[i].accounts[j] : j \in DOMAIN instructions[i].accounts } :
            i \in DOMAIN instructions }

InstructionKeys(instructions) ==
    { instructions[i].program_id : i \in DOMAIN instructions }
        \cup { m.pubkey : m \in Metas(instructions) }

KeyIsSigner(instructions, payer, k) ==
    k = payer \/ \E m \in Metas(instructions) : m.pubkey = k /\ m.is_signer

KeyIsWritable(instructions, payer, k) ==
    k = payer \/ \E m \in Metas(instructions) : m.pubkey = k /\ m.is_writable

\* Position of key k in a key list, 0-based as in a compiled instruction.
KeyIndex(keys, k) == (CHOOSE i \in DOMAIN keys : keys[i] = k) - 1

CompileInstruction(ix, keys) ==
    [ program_id_index |-> KeyIndex(keys, ix.program_id),
      accounts |-> [j \in DOMAIN ix.accounts |-> KeyIndex(keys, ix.accounts[j].pubkey)],
      data |-> ix.data ]

\* Transaction::new_with_payer(&instructions, Some(&payer)): the payer first,
\* then writable signers, readonly signers, writable non-signers, readonly
\* non-signers (each group in key order); flags of a key met twice are or-ed;
\* one default signature per required signature.
NewWithPayer(instructions, payer) ==
    LET others == InstructionKeys(instructions) \ {payer}
        ws == { k \in others : KeyIsSigner(instructions, payer, k)
                                /\ KeyIsWritable(instructions, payer, k) }
        rs == { k \in others : KeyIsSigner(instructions, payer, k)
                                /\ ~KeyIsWritable(instructions, payer, k) }
        wn == { k \in others : ~KeyIsSigner(instructions, payer, k)
                                /\ KeyIsWritable(instructions, payer, k) }
        rn == { k \in others : ~KeyIsSigner(instructions, payer, k)
                                /\ ~KeyIsWritable(instructions, payer, k) }
        keys == <<payer>> \o SortedKeys(ws) \o SortedKeys(rs)
                          \o SortedKeys(wn) \o SortedKeys(rn)
        nsig == 1 + Cardinality(ws) + Cardinality(rs)
    IN  [ signatures |-> [i \in 1..nsig |-> 0],
          message |->
            [ header |-> [ num_required_signatures |-> nsig,
                           num_readonly_signed_accounts |-> Cardinality(rs),
                           num_readonly_unsigned_accounts |-> Cardinality(rn) ],
              account_keys |-> keys,
              recent_blockhash |-> 0,
              instructions |->
                [i \in DOMAIN instructions |-> CompileInstruction(instructions[i], keys)] ] ]

\* bincode::serialize(&transaction).len() ------------------------------------

\* Bytes of a short_vec (compact-u16) length prefix.
ShortVecLen(n) == IF n < 128 THEN 1 ELSE IF n < 16384 THEN 2 ELSE 3

RECURSIVE SumOver(_, _)
SumOver(f, n) == IF n = 0 THEN 0 ELSE f[n] + SumOver(f, n - 1)

CompiledInstructionSize(ci) ==
    1 + ShortVecLen(Len(ci.accounts)) + Len(ci.accounts)
      + ShortVecLen(Len(ci.data)) + Len(ci.data)

SerializedSize(tx) ==
    LET m == tx.message
        sizes == [i \in DOMAIN m.instructions |-> CompiledInstructionSize(m.instructions[i])]
    IN  ShortVecLen(Len(tx.signatures)) + 64 * Len(tx.signatures)
        + 3
        + ShortVecLen(Len(m.account_keys)) + 32 * Len(m.account_keys)
        + 32
        + ShortVecLen(Len(m.instructions)) + SumOver(sizes, Len(m.instructions))

\* State ---------------------------------------------------------------------

VARIABLES
    fee_payer,                  \* TransactionBuilder.fee_payer
    signers,                    \* SignatureBuilder.signers: pubkey -> signer
    instruction_packs,          \* TransactionBuilder.instruction_packs
    current_instruction_pack,   \* OnceCell: None or Some(pack)
    max_transaction_size,       \* TransactionBuilder.max_transaction_size
    result,                     \* what the last call was given and returned
    iter,                       \* the iterator borrowing the builder, if any
    emitted,                    \* what that iterator has yielded so far
    startPacks,                 \* the packs the iterator started from
    probe,                      \* a call on a SignatureBuilder of its own
    seq,                        \* a call of execute_transactions_in_sequence
    par,                        \* a call of execute_in_parallel
    cache,                      \* the blockhash cache and its callers
    loop,                       \* a spawned executor or simulator loop and its channel
    stream,                     \* a candidate stream and the executor pulling it
    signing                     \* tasks signing shareable PreparedTransactions

vars == << fee_payer, signers, instruction_packs, current_instruction_pack,
           max_transaction_size, result, iter, emitted, startPacks, probe,
           seq, par, cache, loop, stream, signing >>

\* What the calls on the TransactionBuilder never touch.
apart == << probe, seq, par, cache, loop, stream, signing >>

builder == << fee_payer, signers, instruction_packs, current_instruction_pack,
              max_transaction_size >>

\* A signer object: a keypair known by the public key it reports.
Keypair(k) == [pubkey |-> k]

\* unzip of a pack
InstructionsOf(pack) == [i \in DOMAIN pack |-> pack[i][1]]
DescriptionsOf(pack) == [i \in DOMAIN pack |-> pack[i][2]]

RECURSIVE Flatten(_)
Flatten(packs) == IF packs = <<>> THEN <<>> ELSE Head(packs) \o Flatten(Tail(packs))

\* SignatureBuilder -----------------------------------------------------------

\* Mutant: inserting under a key the map holds evicts that key.
InsertEvicts(map, k, v) ==
    IF k \in DOMAIN map THEN [x \in DOMAIN map \ {k} |-> map[x]]
    ELSE [x \in DOMAIN map \cup {k} |-> IF x = k THEN v ELSE map[x]]

\* HashMap::insert: the entry of k is added, or replaced if k has one.
Insert(map, k, v) == [x \in DOMAIN map \cup {k} |-> IF x = k THEN v ELSE map[x]]

contains_key(map, k) == k \in DOMAIN map

\* Mutant: resolves every account key, not only the required signatures.
signers_for_every_key(map, tx) ==
    LET n == Len(tx.message.account_keys)
        keys == tx.message.account_keys
        missing == { i \in 1..n : ~contains_key(map, keys[i]) }
    IN  IF missing = {}
        THEN [ok |-> TRUE, signers |-> [i \in 1..n |-> map[keys[i]]], err |-> None]
        ELSE [ok |-> FALSE, signers |-> <<>>,
              err |-> Some(keys[CHOOSE i \in missing : \A j \in missing : i <= j])]

\* Mutant: reports the last missing key instead of the first.
signers_for_transaction_last(map, tx) ==
    LET n == tx.message.header.num_required_signatures
        keys == SubSeq(tx.message.account_keys, 1, n)
        missing == { i \in 1..n : ~contains_key(map, keys[i]) }
    IN  IF missing = {}
        THEN [ok |-> TRUE, signers |-> [i \in 1..n |-> map[keys[i]]], err |-> None]
        ELSE [ok |-> FALSE, signers |-> <<>>,
              err |-> Some(keys[CHOOSE i \in missing : \A j \in missing : i >= j])]

\* Ok(signers of the first N account keys) or Err(first missing key).
signers_for_transaction(map, tx) ==
    LET n == tx.message.header.num_required_signatures
        keys == SubSeq(tx.message.account_keys, 1, n)
        missing == { i \in 1..n : ~contains_key(map, keys[i]) }
    IN  IF missing = {}
        THEN [ok |-> TRUE, signers |-> [i \in 1..n |-> map[keys[i]]], err |-> None]
        ELSE [ok |-> FALSE, signers |-> <<>>,
              err |-> Some(keys[CHOOSE i \in missing : \A j \in missing : i <= j])]

\* PreparedTransaction::new(transaction, &signature_builder, descriptions)
PreparedTransactionNew(tx, map, descriptions) ==
    LET s == signers_for_transaction(map, tx)
    IN  [ok |-> s.ok, err |-> s.err,
         value |-> [transaction |-> tx, signers |-> s.signers,
                    descriptions |-> descriptions]]

\* TransactionBuilder ---------------------------------------------------------

\* Mutant: reports the last unknown signer instead of the first.
check_signers_last(map, instruction) ==
    LET bad == { j \in DOMAIN instruction.accounts :
                    instruction.accounts[j].is_signer
                    /\ ~contains_key(map, instruction.accounts[j].pubkey) }
    IN  IF bad = {} THEN None
        ELSE Some(instruction.accounts[CHOOSE j \in bad : \A i \in bad : j >= i].pubkey)

\* Mutant: accepts a signer that is a writable account without looking it up.
check_signers_readonly_only(map, instruction) ==
    LET bad == { j \in DOMAIN instruction.accounts :
                    instruction.accounts[j].is_signer
                    /\ ~instruction.accounts[j].is_writable
                    /\ ~contains_key(map, instruction.accounts[j].pubkey) }
    IN  IF bad = {} THEN None
        ELSE Some(instruction.accounts[CHOOSE j \in bad : \A i \in bad : j <= i].pubkey)

\* Err(first is_signer account, in account order, not in the registry) or Ok.
check_signers(map, instruction) ==
    LET bad == { j \in DOMAIN instruction.accounts :
                    instruction.accounts[j].is_signer
                    /\ ~contains_key(map, instruction.accounts[j].pubkey) }
    IN  IF bad = {} THEN None
        ELSE Some(instruction.accounts[CHOOSE j \in bad : \A i \in bad : j <= i].pubkey)

is_current_pack_empty(current) == IF current # None THEN current[1] = <<>> ELSE TRUE

is_empty(packs, current) == is_current_pack_empty(current) /\ packs = <<>>

\* Mutant: rejects a candidate of exactly max bytes.
add_instruction_internal_strict(map, current, payer, max, instruction, description) ==
    LET unknown == check_signers(map, instruction)
    IN  IF unknown # None
        THEN [kind |-> "UnknownSigner", pubkey |-> unknown, current |-> current]
        ELSE IF current = None
        THEN [kind |-> "panic", pubkey |-> None, current |-> current]
        ELSE
        LET pushed == Append(current[1], <<instruction, description>>)
            transaction_candidate == NewWithPayer(InstructionsOf(pushed), payer)
            tx_size_candidate == SerializedSize(transaction_candidate)
        IN  IF max > 0 /\ tx_size_candidate >= max
            THEN [kind |-> "TooBigTransaction", pubkey |-> None,
                  current |-> Some(SubSeq(pushed, 1, Len(pushed) - 1))]
            ELSE [kind |-> "Ok", pubkey |-> None, current |-> Some(pushed)]

\* add_instruction_internal: the kind of result, the key of an UnknownSigner
\* error, and the current pack it leaves.
add_instruction_internal(map, current, payer, max, instruction, description) ==
    LET unknown == check_signers(map, instruction)
    IN  IF unknown # None
        THEN [kind |-> "UnknownSigner", pubkey |-> unknown, current |-> current]
        ELSE IF current = None
        THEN [kind |-> "panic", pubkey |-> None, current |-> current]
        ELSE
        LET pushed == Append(current[1], <<instruction, description>>)
            transaction_candidate == NewWithPayer(InstructionsOf(pushed), payer)
            tx_size_candidate == SerializedSize(transaction_candidate)
        IN  IF max > 0 /\ tx_size_candidate > max
            THEN [kind |-> "TooBigTransaction", pubkey |-> None,
                  current |-> Some(SubSeq(pushed, 1, Len(pushed) - 1))]
            ELSE [kind |-> "Ok", pubkey |-> None, current |-> Some(pushed)]

\* finish_instruction_pack: take() the current pack, expect() it, push it,
\* set a new empty one.
finish_instruction_pack(packs, current) ==
    IF current = None
    THEN [panic |-> TRUE, packs |-> packs, current |-> None]
    ELSE [panic |-> FALSE, packs |-> Append(packs, current[1]), current |-> Some(<<>>)]

\* abort_instruction_pack: take() the current pack and expect() it.
abort_instruction_pack(current) ==
    IF current = None
    THEN [panic |-> TRUE, current |-> None]
    ELSE [panic |-> FALSE, current |-> None]

\* The first step of both build functions: finish a non-empty current pack.
FinishIfNotEmpty(packs, current) ==
    IF ~is_current_pack_empty(current)
    THEN finish_instruction_pack(packs, current)
    ELSE [panic |-> FALSE, packs |-> packs, current |-> current]

\* What a build function returns: the Option<PreparedTransaction> (or the
\* panic of its expect), the builder's packs afterwards, and the number of
\* packs it removed from the list.
Built(prepared, packs, current, taken) ==
    [panic |-> ~prepared.ok, out |-> IF prepared.ok THEN Some(prepared.value) ELSE None,
     packs |-> packs, current |-> current, taken |-> taken]

NotBuilt(packs, current) ==
    [panic |-> FALSE, out |-> None, packs |-> packs, current |-> current, taken |-> 0]

\* Mutant: reads the first pack without removing it.
build_next_peek(map, packs, current, payer) ==
    LET f == FinishIfNotEmpty(packs, current)
    IN  IF is_empty(f.packs, f.current) THEN NotBuilt(f.packs, f.current)
        ELSE IF f.packs # <<>>
        THEN LET pack == Head(f.packs)
                 transaction == NewWithPayer(InstructionsOf(pack), payer)
             IN  Built(PreparedTransactionNew(transaction, map, DescriptionsOf(pack)),
                       f.packs, f.current, 1)
        ELSE NotBuilt(f.packs, f.current)

build_next(map, packs, current, payer) ==
    LET f == FinishIfNotEmpty(packs, current)
    IN  IF is_empty(f.packs, f.current) THEN NotBuilt(f.packs, f.current)
        ELSE IF f.packs # <<>>
        THEN LET pack == Head(f.packs)
                 transaction == NewWithPayer(InstructionsOf(pack), payer)
             IN  Built(PreparedTransactionNew(transaction, map, DescriptionsOf(pack)),
                       Tail(f.packs), f.current, 1)
        ELSE NotBuilt(f.packs, f.current)

\* Mutant: the loop never extends the first pack.
CombineLoopFirstOnly(instructions, descriptions, transaction, packs, payer, max) ==
    [transaction |-> transaction, descriptions |-> descriptions, packs |-> packs]

\* Mutant: on break, returns the candidate that did not fit.
RECURSIVE CombineLoopKeepsCandidate(_, _, _, _, _, _)
CombineLoopKeepsCandidate(instructions, descriptions, transaction, packs, payer, max) ==
    IF packs = <<>>
    THEN [transaction |-> transaction, descriptions |-> descriptions, packs |-> packs]
    ELSE
    LET next_pack == Head(packs)
        instructions2 == instructions \o InstructionsOf(next_pack)
        descriptions2 == descriptions \o DescriptionsOf(next_pack)
        transaction_candidate == NewWithPayer(instructions2, payer)
    IN  IF SerializedSize(transaction_candidate) <= max
        THEN CombineLoopKeepsCandidate(instructions2, descriptions2,
                                       transaction_candidate, Tail(packs), payer, max)
        ELSE [transaction |-> transaction_candidate, descriptions |-> descriptions2,
              packs |-> packs]

\* The while loop of build_next_combined: peek the first pack, extend the
\* instructions and the descriptions by it, accept the candidate and remove
\* the pack if it fits, else break.
RECURSIVE CombineLoop(_, _, _, _, _, _)
CombineLoop(instructions, descriptions, transaction, packs, payer, max) ==
    IF packs = <<>>
    THEN [transaction |-> transaction, descriptions |-> descriptions, packs |-> packs]
    ELSE
    LET next_pack == Head(packs)
        instructions2 == instructions \o InstructionsOf(next_pack)
        descriptions2 == descriptions \o DescriptionsOf(next_pack)
        transaction_candidate == NewWithPayer(instructions2, payer)
    IN  IF SerializedSize(transaction_candidate) <= max
        THEN CombineLoop(instructions2, descriptions2, transaction_candidate,
                         Tail(packs), payer, max)
        ELSE [transaction |-> transaction, descriptions |-> descriptions2, packs |-> packs]

\* Mutant: no branch for max = 0, the greedy loop runs under a budget of 0.
build_next_combined_always_greedy(map, packs, current, payer, max) ==
    LET f == FinishIfNotEmpty(packs, current)
    IN  IF f.packs = <<>> THEN NotBuilt(f.packs, f.current)
        ELSE LET first == Head(f.packs)
                 c == CombineLoop(InstructionsOf(first), DescriptionsOf(first),
                                  NewWithPayer(InstructionsOf(first), payer),
                                  Tail(f.packs), payer, max)
             IN  Built(PreparedTransactionNew(c.transaction, map, c.descriptions),
                       c.packs, f.current, Len(f.packs) - Len(c.packs))

build_next_combined(map, packs, current, payer, max) ==
    LET f == FinishIfNotEmpty(packs, current)
    IN  IF f.packs = <<>> THEN NotBuilt(f.packs, f.current)
        ELSE IF max = 0
        THEN LET all == Flatten(f.packs)
                 transaction == NewWithPayer(InstructionsOf(all), payer)
             IN  Built(PreparedTransactionNew(transaction, map, DescriptionsOf(all)),
                       <<>>, f.current, Len(f.packs))
        ELSE LET first == Head(f.packs)
                 c == CombineLoop(InstructionsOf(first), DescriptionsOf(first),
                                  NewWithPayer(InstructionsOf(first), payer),
                                  Tail(f.packs), payer, max)
             IN  Built(PreparedTransactionNew(c.transaction, map, c.descriptions),
                       c.packs, f.current, Len(f.packs) - Len(c.packs))

\* build_one: build_next, then the assert that no completed pack is left;
\* panics when build_next returns None. A panic after build_next has run
\* leaves the builder as build_next left it.
build_one(map, packs, current, payer) ==
    LET r == build_next(map, packs, current, payer)
    IN  IF r.panic THEN r
        ELSE IF r.out = None \/ r.packs # <<>>
        THEN [panic |-> TRUE, out |-> None, packs |-> r.packs,
              current |-> r.current, taken |-> r.taken]
        ELSE r

\* build_single_combined: build_next_combined, then the assert that the
\* builder is empty; None when build_next_combined returns None.
build_single_combined(map, packs, current, payer, max) ==
    LET r == build_next_combined(map, packs, current, payer, max)
    IN  IF r.panic \/ r.out = None THEN r
        ELSE IF ~is_empty(r.packs, r.current)
        THEN [panic |-> TRUE, out |-> None, packs |-> r.packs,
              current |-> r.current, taken |-> r.taken]
        ELSE r

\* instructions(): the instructions of the completed packs, flattened, then
\* those of the current pack if there is one.
all_instructions(packs, current) ==
    InstructionsOf(Flatten(packs))
        \o (IF current # None THEN InstructionsOf(current[1]) ELSE <<>>)

\* fits_single_transaction(): the size of the one transaction of all the
\* instructions against max_transaction_size.
fits_single_transaction(packs, current, payer, max) ==
    LET transaction == NewWithPayer(all_instructions(packs, current), payer)
    IN  SerializedSize(transaction) <= max

\* Calls ---------------------------------------------------------------------

\* What the last call was: its name, how it ended, the (instruction,
\* description) it was given, the key it returned or failed with, the builder
\* state it started from, the transaction it returned and the number of packs
\* it removed.
Outcome(op, kind) ==
    [op |-> op, kind |-> kind, ix |-> None, pubkey |-> None, pre |-> None,
     out |-> None, taken |-> 0]

Snapshot == [instruction_packs |-> instruction_packs,
             current_instruction_pack |-> current_instruction_pack,
             signers |-> signers]

HeldCount == Len(Flatten(instruction_packs))
                + (IF current_instruction_pack = None THEN 0
                   ELSE Len(current_instruction_pack[1]))

Live == result.kind # "panic"
Free == Live /\ iter = "none"

ClearLog == emitted' = <<>> /\ startPacks' = <<>>

\* No call outside the TransactionBuilder has been made.
NoProbe == [op |-> "none", instructions |-> <<>>, ret |-> None]

Idle ==
    /\ probe = NoProbe /\ seq = None /\ par = None /\ cache = None /\ loop = None
    /\ stream = None /\ signing = None

Init ==
    /\ fee_payer \in FeePayers
    /\ signers = Insert(<<>>, fee_payer, Keypair(fee_payer))
    /\ instruction_packs = <<>>
    /\ current_instruction_pack = Some(<<>>)
    /\ max_transaction_size \in MaxSizes
    /\ result = Outcome("new", "Ok")
    /\ iter = "none"
    /\ emitted = <<>>
    /\ startPacks = <<>>
    /\ Idle

add_signer(k) ==
    /\ Free
    /\ signers' = Insert(signers, k, Keypair(k))
    /\ result' = [Outcome("add_signer", "Ok") EXCEPT !.pubkey = Some(k)]
    /\ ClearLog
    /\ UNCHANGED << fee_payer, instruction_packs, current_instruction_pack,
                    max_transaction_size, iter, apart >>

\* Keypair::new() is a key nobody holds yet.
generate_signer ==
    /\ Free
    /\ \E k \in Keys \ DOMAIN signers :
        /\ signers' = Insert(signers, k, Keypair(k))
        /\ result' = [Outcome("generate_signer", "Ok") EXCEPT !.pubkey = Some(k)]
    /\ ClearLog
    /\ UNCHANGED << fee_payer, instruction_packs, current_instruction_pack,
                    max_transaction_size, iter, apart >>

add_signer_checked(k) ==
    /\ Free
    /\ signers' = IF ~contains_key(signers, k)
                  THEN Insert(signers, k, Keypair(k)) ELSE signers
    /\ result' = [Outcome("add_signer_checked", "Ok") EXCEPT !.pubkey = Some(k)]
    /\ ClearLog
    /\ UNCHANGED << fee_payer, instruction_packs, current_instruction_pack,
                    max_transaction_size, iter, apart >>

Admit(op, instruction, description) ==
    LET r == add_instruction_internal(signers, current_instruction_pack, fee_payer,
                                      max_transaction_size, instruction, description)
    IN  /\ Free
        /\ HeldCount < MaxHeld
        /\ current_instruction_pack' = r.current
        /\ result' = [Outcome(op, r.kind) EXCEPT
                        !.ix = Some(<<instruction, description>>),
                        !.pubkey = r.pubkey,
                        !.pre = Some(Snapshot)]
        /\ ClearLog
        /\ UNCHANGED << fee_payer, signers, instruction_packs,
                        max_transaction_size, iter, apart >>

add_instruction(instruction) == Admit("add_instruction", instruction, None)

add_instruction_with_description(instruction, description) ==
    Admit("add_instruction_with_description", instruction, Some(description))

FinishInstructionPack ==
    LET r == finish_instruction_pack(instruction_packs, current_instruction_pack)
    IN  /\ Free
        /\ Len(instruction_packs) < MaxPacks
        /\ instruction_packs' = r.packs
        /\ current_instruction_pack' = r.current
        /\ result' = [Outcome("finish_instruction_pack",
                              IF r.panic THEN "panic" ELSE "Ok") EXCEPT
                        !.pre = Some(Snapshot)]
        /\ ClearLog
        /\ UNCHANGED << fee_payer, signers, max_transaction_size, iter, apart >>

AbortInstructionPack ==
    LET r == abort_instruction_pack(current_instruction_pack)
    IN  /\ Free
        /\ current_instruction_pack' = r.current
        /\ result' = [Outcome("abort_instruction_pack",
                              IF r.panic THEN "panic" ELSE "Ok") EXCEPT
                        !.pre = Some(Snapshot)]
        /\ ClearLog
        /\ UNCHANGED << fee_payer, signers, instruction_packs,
                        max_transaction_size, iter, apart >>

\* The builder part of a build call and its outcome.
Emit(op, r) ==
    /\ instruction_packs' = r.packs
    /\ current_instruction_pack' = r.current
    /\ result' = [Outcome(op, IF r.panic THEN "panic"
                              ELSE IF r.out = None THEN "None" ELSE "Some") EXCEPT
                    !.out = r.out, !.taken = r.taken, !.pre = Some(Snapshot)]
    /\ UNCHANGED << fee_payer, signers, max_transaction_size, apart >>

BuildNext ==
    /\ Free
    /\ Emit("build_next",
            build_next(signers, instruction_packs, current_instruction_pack, fee_payer))
    /\ ClearLog
    /\ UNCHANGED iter

BuildNextCombined ==
    /\ Free
    /\ Emit("build_next_combined",
            build_next_combined(signers, instruction_packs, current_instruction_pack,
                                fee_payer, max_transaction_size))
    /\ ClearLog
    /\ UNCHANGED iter

\* The single-transaction calls -------------------------------------------------

BuildOne ==
    /\ Free
    /\ Emit("build_one",
            build_one(signers, instruction_packs, current_instruction_pack, fee_payer))
    /\ ClearLog
    /\ UNCHANGED iter

BuildSingleCombined ==
    /\ Free
    /\ Emit("build_single_combined",
            build_single_combined(signers, instruction_packs, current_instruction_pack,
                                  fee_payer, max_transaction_size))
    /\ ClearLog
    /\ UNCHANGED iter

\* A builder that is filled and then asked for its one transaction.
SingleNext ==
    \/ \E instruction \in Instructions : add_instruction(instruction)
    \/ FinishInstructionPack
    \/ AbortInstructionPack
    \/ BuildOne
    \/ BuildSingleCombined

SingleSpec == Init /\ [][SingleNext]_vars

\* Iterators -----------------------------------------------------------------

\* The packs an iterator will consume: the completed ones, then the current
\* one if it holds anything.
PendingPacks ==
    instruction_packs \o (IF is_current_pack_empty(current_instruction_pack)
                          THEN <<>> ELSE <<current_instruction_pack[1]>>)

\* sequence() / sequence_combined(): the iterator borrows the builder mutably,
\* so until it is exhausted nothing else touches the builder.
StartIter(kind) ==
    /\ Free
    /\ iter' = kind
    /\ emitted' = <<>>
    /\ startPacks' = PendingPacks
    /\ result' = Outcome(kind, "Ok")
    /\ UNCHANGED << builder, apart >>

sequence == StartIter("sequence")

sequence_combined == StartIter("sequence_combined")

IterNext(op, r) ==
    /\ Live
    /\ Emit(op, r)
    /\ emitted' = IF r.out = None THEN emitted
                  ELSE Append(emitted, [prepared |-> r.out[1], taken |-> r.taken])
    /\ iter' = IF r.out = None THEN "none" ELSE iter
    /\ UNCHANGED startPacks

SequenceNext ==
    /\ iter = "sequence"
    /\ IterNext("Sequence::next",
                build_next(signers, instruction_packs, current_instruction_pack,
                           fee_payer))

CombinedSequenceNext ==
    /\ iter = "sequence_combined"
    /\ IterNext("CombinedSequence::next",
                build_next_combined(signers, instruction_packs,
                                    current_instruction_pack, fee_payer,
                                    max_transaction_size))

Next ==
    \/ \E k \in Keys : add_signer(k)
    \/ generate_signer
    \/ \E k \in Keys : add_signer_checked(k)
    \/ \E ix \in Instructions : add_instruction(ix)
    \/ \E ix \in Instructions, d \in DescriptionTexts :
            add_instruction_with_description(ix, d)
    \/ FinishInstructionPack
    \/ AbortInstructionPack
    \/ BuildNext
    \/ BuildNextCombined
    \/ sequence
    \/ SequenceNext
    \/ sequence_combined
    \/ CombinedSequenceNext

Spec == Init /\ [][Next]_vars

\* SignatureBuilder on its own ---------------------------------------------------

\* SignatureBuilder and PreparedTransaction are public: any registry may be
\* asked for the signers of any transaction.
Registries == { [k \in S |-> Keypair(k)] : S \in SUBSET Keys }

InstructionLists == UNION { [1..n -> Instructions] : n \in 0..MaxProbe }

ProbeTransaction == NewWithPayer(probe.instructions, fee_payer)

ProbeInit ==
    /\ fee_payer \in FeePayers
    /\ signers \in Registries
    /\ instruction_packs = <<>>
    /\ current_instruction_pack = Some(<<>>)
    /\ max_transaction_size = 0
    /\ result = Outcome("new", "Ok")
    /\ iter = "none"
    /\ emitted = <<>>
    /\ startPacks = <<>>
    /\ \E l \in InstructionLists : probe = [NoProbe EXCEPT !.instructions = l]
    /\ seq = None /\ par = None /\ cache = None /\ loop = None
    /\ stream = None /\ signing = None

\* signature_builder.signers_for_transaction(&transaction)
SignersForTransaction ==
    /\ probe' = [probe EXCEPT
                    !.op = "signers_for_transaction",
                    !.ret = Some(signers_for_transaction(signers, ProbeTransaction))]
    /\ UNCHANGED << builder, result, iter, emitted, startPacks, seq, par, cache, loop,
                    stream, signing >>

\* PreparedTransaction::new(transaction, &signature_builder)
NewPreparedTransaction ==
    /\ probe' = [probe EXCEPT
                    !.op = "PreparedTransaction::new",
                    !.ret = Some(PreparedTransactionNew(ProbeTransaction, signers,
                                                        <<>>))]
    /\ UNCHANGED << builder, result, iter, emitted, startPacks, seq, par, cache, loop,
                    stream, signing >>

ProbeNext == SignersForTransaction \/ NewPreparedTransaction

ProbeSpec == ProbeInit /\ [][ProbeNext]_vars

\* Execution driver: sequential batch -------------------------------------------

\* The builder as the execution driver sees it: not used.
BuilderUnused ==
    /\ fee_payer \in FeePayers
    /\ signers = Insert(<<>>, fee_payer, Keypair(fee_payer))
    /\ instruction_packs = <<>>
    /\ current_instruction_pack = Some(<<>>)
    /\ max_transaction_size = 0
    /\ result = Outcome("new", "Ok")
    /\ iter = "none"
    /\ emitted = <<>>
    /\ startPacks = <<>>
    /\ probe = NoProbe

BuilderAtRest == BuilderUnused /\ stream = None /\ signing = None

builderAtRest == << builder, result, iter, emitted, startPacks, probe, stream, signing >>

\* tx_uuid of a TransactionBuilderExecutionData. The struct is Clone, so one
\* uuid may stand in a batch more than once.
Uuids == {"u1", "u2", "u3"}

TransactionBuilderExecutionData(u) == [tx_uuid |-> u]

Batches ==
    UNION { [1..n -> { TransactionBuilderExecutionData(u) : u \in Uuids }] :
                n \in 0..MaxBatch }

\* What transaction_executor.execute_transaction(..).await resolves to.
ExecutorResults == {"Ok", "Err"}

\* The text of the anyhow error, by the values formatted into it.
FailedToExecute(tx_uuid, human_index, sequence_length) ==
    [tx_uuid |-> tx_uuid, human_index |-> human_index,
     sequence_length |-> sequence_length]

\* Mutant: the ordinal of the error is the 0-based index.
after_execute_zero_based(entries, index, outcome) ==
    IF outcome = "Ok" THEN None
    ELSE Some(FailedToExecute(entries[index + 1].tx_uuid, index, Len(entries)))

\* The match on the executor's result for the entry at the 0-based index of
\* the enumerate: Ok goes on with the loop, Err bails with the uuid and
\* human_index = index + 1.
after_execute(entries, index, outcome) ==
    IF outcome = "Ok" THEN None
    ELSE Some(FailedToExecute(entries[index + 1].tx_uuid, index + 1, Len(entries)))

SeqInit ==
    /\ BuilderAtRest
    /\ \E b \in Batches :
        seq = [async_transaction_builders |-> b, index |-> 0, in_flight |-> 0,
               executed |-> <<>>, outcomes |-> <<>>, ret |-> None]
    /\ par = None /\ cache = None /\ loop = None

\* The loop takes the next entry and awaits execute_transaction on its
\* candidate stream.
SeqHandOver ==
    /\ seq.ret = None
    /\ seq.in_flight = 0
    /\ seq.index < Len(seq.async_transaction_builders)
    /\ seq' = [seq EXCEPT
                !.in_flight = 1,
                !.executed = Append(@,
                    seq.async_transaction_builders[seq.index + 1].tx_uuid)]
    /\ UNCHANGED << builderAtRest, par, cache, loop >>

\* The executor answers; the loop goes on or the function bails.
SeqExecuted(outcome) ==
    LET bail == after_execute(seq.async_transaction_builders, seq.index, outcome)
    IN  /\ seq.in_flight = 1
        /\ seq' = [seq EXCEPT
                    !.in_flight = 0,
                    !.outcomes = Append(@, outcome),
                    !.index = IF bail = None THEN @ + 1 ELSE @,
                    !.ret = IF bail = None THEN None
                            ELSE Some([ok |-> FALSE, error |-> bail[1]])]
        /\ UNCHANGED << builderAtRest, par, cache, loop >>

\* The loop is over: Ok(()).
SeqReturnOk ==
    /\ seq.ret = None
    /\ seq.in_flight = 0
    /\ seq.index = Len(seq.async_transaction_builders)
    /\ seq' = [seq EXCEPT !.ret = Some([ok |-> TRUE, error |-> None])]
    /\ UNCHANGED << builderAtRest, par, cache, loop >>

SeqNext ==
    \/ SeqHandOver
    \/ \E outcome \in ExecutorResults : SeqExecuted(outcome)
    \/ SeqReturnOk

SeqSpec == SeqInit /\ [][SeqNext]_vars

\* Execution driver: parallel batch ---------------------------------------------

\* TransactionBuilderExecutionError::new
TransactionBuilderExecutionError(cause, tx_uuid, human_index, description) ==
    [cause |-> cause, tx_uuid |-> tx_uuid, human_index |-> human_index,
     description |-> description]

\* TransactionBuilderExecutionErrors::new
ErrorsNew == <<>>

\* Mutant: an aggregate that holds an error keeps it and drops the new one.
add_error_keep_first(errors, cause, tx_uuid, human_index, description) ==
    IF errors = <<>>
    THEN <<TransactionBuilderExecutionError(cause, tx_uuid, human_index, description)>>
    ELSE errors

\* TransactionBuilderExecutionErrors::add_error: push a new error.
add_error(errors, cause, tx_uuid, human_index, description) ==
    Append(errors,
           TransactionBuilderExecutionError(cause, tx_uuid, human_index, description))

\* TransactionBuilderExecutionErrors::is_empty
errors_is_empty(errors) == Len(errors) = 0

\* The permits of the semaphore of one call: the bound is given per call.
ParallelLimits == {1, 2}

\* execute_in_parallel has spawned one task per entry; each waits for a
\* permit.
ParInit ==
    /\ BuilderAtRest
    /\ seq = None /\ cache = None /\ loop = None
    /\ \E b \in Batches, limit \in ParallelLimits :
        par = [entries |-> b, permits |-> limit, limit |-> limit,
               task |-> [i \in DOMAIN b |-> "spawned"],
               joined |-> 0, errors |-> ErrorsNew, ret |-> None]

\* The task of entry i gets a permit and invokes the executor.
ParAcquire(i) ==
    /\ par.task[i] = "spawned"
    /\ par.permits > 0
    /\ par' = [par EXCEPT !.permits = @ - 1, !.task[i] = "executing"]
    /\ UNCHANGED << builderAtRest, seq, cache, loop >>

\* The executor answers the task of entry i; the task ends and its permit is
\* dropped.
ParExecuted(i, outcome) ==
    /\ par.task[i] = "executing"
    /\ par' = [par EXCEPT !.permits = @ + 1, !.task[i] = outcome]
    /\ UNCHANGED << builderAtRest, seq, cache, loop >>

\* The caller awaits the tasks in input order and adds the error of a failed
\* one to the aggregate, with the uuid and the 1-based ordinal of its entry.
ParJoin ==
    LET i == par.joined + 1
    IN  /\ par.ret = None
        /\ i \in DOMAIN par.entries
        /\ par.task[i] \in ExecutorResults
        /\ par' = [par EXCEPT
                    !.joined = i,
                    !.errors = IF par.task[i] = "Err"
                               THEN add_error(@, "Err", par.entries[i].tx_uuid, i, "")
                               ELSE @]
        /\ UNCHANGED << builderAtRest, seq, cache, loop >>

\* Every task was awaited: failure iff the aggregate holds an error.
ParReturn ==
    /\ par.ret = None
    /\ par.joined = Len(par.entries)
    /\ par' = [par EXCEPT !.ret = Some([ok |-> errors_is_empty(par.errors),
                                        errors |-> par.errors])]
    /\ UNCHANGED << builderAtRest, seq, cache, loop >>

ParNext ==
    \/ \E i \in DOMAIN par.entries : ParAcquire(i)
    \/ \E i \in DOMAIN par.entries, outcome \in ExecutorResults : ParExecuted(i, outcome)
    \/ ParJoin
    \/ ParReturn

ParSpec == ParInit /\ [][ParNext]_vars

\* Blockhash cache ----------------------------------------------------------------

\* #[cached(result = true, time = 10, sync_writes = true)]: a process-wide
\* timed cache keyed by the url argument, behind one async lock that a caller
\* holds from its lookup to the end of its fetch.
BLOCKHASH_CACHE_SECONDS == 10

Urls == {"a", "b"}

Callers == 1..MaxCallers

\* Result<Hash, anyhow::Error>
OkHash(h) == [ok |-> TRUE, hash |-> h]
ErrFetch == [ok |-> FALSE, hash |-> 0]

\* cache_get: the value stored for url if it is younger than the lifespan.
cache_get(store, url, now) ==
    IF url \in DOMAIN store /\ now - store[url].at < BLOCKHASH_CACHE_SECONDS
    THEN Some(store[url].value) ELSE None

\* cache_get removes the entry it finds expired.
cache_evict(store, url, now) ==
    IF url \in DOMAIN store /\ now - store[url].at >= BLOCKHASH_CACHE_SECONDS
    THEN [u \in DOMAIN store \ {url} |-> store[u]] ELSE store

\* Mutant: result = false, whatever the function returns is stored.
cache_result_any(store, url, now, fetched) ==
    [u \in DOMAIN store \cup {url} |->
        IF u = url THEN [value |-> fetched, at |-> now] ELSE store[u]]

\* result = true: the value of an Ok is stored, an Err is not.
cache_result(store, url, now, fetched) ==
    IF fetched.ok
    THEN [u \in DOMAIN store \cup {url} |->
            IF u = url THEN [value |-> fetched, at |-> now] ELSE store[u]]
    ELSE store

\* Mutant: sync_writes = false, a caller does not wait for the one fetching.
may_enter_unsynchronized(lock) == TRUE

\* sync_writes = true: the lock is taken before the lookup.
may_enter(lock) == lock = 0

\* A task: where it is in its call, the url it asks for, whether it called
\* before any blockhash of that url was stored, whether it went to the network,
\* and what it got.
NotCalling ==
    [pc |-> "idle", url |-> "", early |-> FALSE, fetched |-> FALSE, ret |-> None]

CacheInit ==
    /\ BuilderAtRest
    /\ seq = None /\ par = None /\ loop = None
    /\ cache = [lock |-> 0, store |-> <<>>, now |-> 0, chain |-> 0,
                fetches |-> [u \in Urls |-> 0],
                failures |-> [u \in Urls |-> 0],
                expiries |-> [u \in Urls |-> 0],
                caller |-> [c \in Callers |-> NotCalling]]

\* A task calls get_latest_blockhash(url) and waits for the lock.
CacheCall(c, url) ==
    /\ cache.caller[c].pc = "idle"
    /\ cache' = [cache EXCEPT
                    !.caller[c].pc = "waiting",
                    !.caller[c].url = url,
                    !.caller[c].early =
                        url \notin DOMAIN cache.store /\ cache.expiries[url] = 0]
    /\ UNCHANGED << builderAtRest, seq, par, loop >>

\* The caller gets the lock and looks its url up: a hit returns the stored
\* value and releases the lock; a miss starts the fetch, the lock being held.
CacheLookup(c) ==
    LET url == cache.caller[c].url
        hit == cache_get(cache.store, url, cache.now)
    IN  /\ cache.caller[c].pc = "waiting"
        /\ may_enter(cache.lock)
        /\ cache' =
            IF hit # None
            THEN [cache EXCEPT !.caller[c].pc = "done",
                               !.caller[c].ret = Some(hit[1])]
            ELSE [cache EXCEPT !.caller[c].pc = "fetching",
                               !.caller[c].fetched = TRUE,
                               !.lock = c,
                               !.store = cache_evict(@, url, cache.now),
                               !.expiries[url] =
                                    IF url \in DOMAIN cache.store THEN @ + 1 ELSE @,
                               !.fetches[url] = @ + 1]
        /\ UNCHANGED << builderAtRest, seq, par, loop >>

\* The network answers: the latest blockhash, a new one at every fetch, or an
\* error. The caller returns it and releases the lock.
CacheFetched(c, ok) ==
    LET url == cache.caller[c].url
        fetched == IF ok THEN OkHash(cache.chain + 1) ELSE ErrFetch
    IN  /\ cache.caller[c].pc = "fetching"
        /\ cache' = [cache EXCEPT
                        !.caller[c].pc = "done",
                        !.caller[c].ret = Some(fetched),
                        !.lock = IF @ = c THEN 0 ELSE @,
                        !.chain = IF ok THEN @ + 1 ELSE @,
                        !.failures[url] = IF ok THEN @ ELSE @ + 1,
                        !.store = cache_result(@, url, cache.now, fetched)]
        /\ UNCHANGED << builderAtRest, seq, par, loop >>

\* Five seconds pass.
CacheTick ==
    /\ cache.now + 5 <= MaxTime
    /\ cache' = [cache EXCEPT !.now = @ + 5]
    /\ UNCHANGED << builderAtRest, seq, par, loop >>

CacheNext ==
    \/ \E c \in Callers, url \in Urls : CacheCall(c, url)
    \/ \E c \in Callers : CacheLookup(c)
    \/ \E c \in Callers, ok \in BOOLEAN : CacheFetched(c, ok)
    \/ CacheTick

CacheSpec == CacheInit /\ [][CacheNext]_vars

\* Spawned executor loop ----------------------------------------------------------

TRANSACTION_CHANNEL_SIZE == 2
TRANSACTIONS_IN_PARALLEL == 4

\* Mutant: a permit is handed out whether or not one is left.
can_acquire_always(permits) == TRUE

\* Semaphore::acquire_owned resolves when a permit is available.
can_acquire(permits) == permits > 0

\* Mutant: the acquisition of many resolves on one available permit.
can_acquire_many_one(permits, n) == permits >= 1

\* Semaphore::acquire_many_owned(n) resolves when n permits are available.
can_acquire_many(permits, n) == permits >= n

\* Mutant: a channel that takes a batch whatever it holds.
can_send_unbounded(channel) == TRUE

\* Sender::send resolves when the channel holds fewer messages than its
\* capacity.
can_send(channel) == Len(channel) < TRANSACTION_CHANNEL_SIZE

\* How the task of a batch ends: the sequence succeeded, it failed and was
\* logged, or it failed under exit_on_error and the task panicked.
task_end(outcome, exit_on_error) ==
    IF outcome = "Ok" THEN "ok"
    ELSE IF exit_on_error THEN "panicked" ELSE "failed"

\* spawn_transaction_executor: the channel is empty, the loop waits in recv,
\* the semaphore has all its permits. Batches are known by the order in which
\* they are sent.
LoopInit ==
    /\ BuilderAtRest
    /\ seq = None /\ par = None /\ cache = None
    /\ \E e \in BOOLEAN :
        loop = [exit_on_error |-> e, channel |-> <<>>, closed |-> FALSE,
                sent |-> 0, pc |-> "recv", received |-> None,
                permits |-> TRANSACTIONS_IN_PARALLEL, holders |-> {},
                task |-> [b \in 1..MaxSubmitted |-> "none"]]

\* tx_transaction.send(batch).await resolves while the channel has room.
LoopSend ==
    /\ ~loop.closed
    /\ loop.sent < MaxSubmitted
    /\ can_send(loop.channel)
    /\ loop' = [loop EXCEPT !.sent = @ + 1, !.channel = Append(@, loop.sent + 1)]
    /\ UNCHANGED << builderAtRest, seq, par, cache >>

\* The last Sender is dropped.
LoopClose ==
    /\ ~loop.closed
    /\ loop' = [loop EXCEPT !.closed = TRUE]
    /\ UNCHANGED << builderAtRest, seq, par, cache >>

\* rx_transaction.recv().await: the next batch, or None once the channel is
\* closed and empty, which ends the while loop.
LoopRecv ==
    /\ loop.pc = "recv"
    /\ \/ /\ loop.channel # <<>>
          /\ loop' = [loop EXCEPT !.channel = Tail(@),
                                  !.received = Some(Head(loop.channel)),
                                  !.pc = "acquire"]
       \/ /\ loop.channel = <<>>
          /\ loop.closed
          /\ loop' = [loop EXCEPT !.pc = "drain"]
    /\ UNCHANGED << builderAtRest, seq, par, cache >>

\* acquire_owned().await, then tokio::spawn of the task of the batch, which
\* owns the permit.
LoopSpawn ==
    /\ loop.pc = "acquire"
    /\ can_acquire(loop.permits)
    /\ loop' = [loop EXCEPT !.permits = @ - 1,
                            !.holders = @ \cup {loop.received[1]},
                            !.task[loop.received[1]] = "running",
                            !.received = None,
                            !.pc = "recv"]
    /\ UNCHANGED << builderAtRest, seq, par, cache >>

\* execute_transactions_in_sequence of batch b returns; the task ends, by
\* return or by panic, and its permit is dropped.
LoopTaskEnds(b, outcome) ==
    /\ loop.task[b] = "running"
    /\ loop' = [loop EXCEPT !.task[b] = task_end(outcome, loop.exit_on_error),
                            !.holders = @ \ {b},
                            !.permits = @ + 1]
    /\ UNCHANGED << builderAtRest, seq, par, cache >>

\* After the loop: acquire_many_owned of all permits resolves when every task
\* has given its permit back; the permits, bound to _, are dropped at once.
LoopExit ==
    /\ loop.pc = "drain"
    /\ can_acquire_many(loop.permits, TRANSACTIONS_IN_PARALLEL)
    /\ loop' = [loop EXCEPT !.pc = "exited"]
    /\ UNCHANGED << builderAtRest, seq, par, cache >>

LoopNext ==
    \/ LoopSend
    \/ LoopClose
    \/ LoopRecv
    \/ LoopSpawn
    \/ \E b \in 1..MaxSubmitted, outcome \in ExecutorResults : LoopTaskEnds(b, outcome)
    \/ LoopExit

LoopSpec == LoopInit /\ [][LoopNext]_vars

\* The runtime polls the loop and every task it spawned, and every batch
\* execution terminates; nothing makes a submitter send or close.
LoopFairness ==
    /\ WF_vars(LoopRecv)
    /\ WF_vars(LoopSpawn)
    /\ WF_vars(LoopExit)
    /\ \A b \in 1..MaxSubmitted :
            WF_vars(\E outcome \in ExecutorResults : LoopTaskEnds(b, outcome))

LoopFairSpec == LoopSpec /\ LoopFairness

\* Execution driver: sending a builder's transactions ----------------------------

\* transaction_builder.sequence_combined().map(..).collect(): the iterator is
\* run to its end, every transaction it yields becoming one
\* TransactionBuilderExecutionData with a fresh uuid, the n-th minted being n.
\* r is what the next call of build_next_combined returns.
RECURSIVE CollectCombined(_, _, _, _, _, _)
CollectCombined(map, packs, current, payer, max, collected) ==
    CHOOSE c \in
        { IF r.panic
          THEN [panic |-> TRUE, execution_data |-> collected,
                packs |-> r.packs, current |-> r.current]
          ELSE IF r.out = None
          THEN [panic |-> FALSE, execution_data |-> collected,
                packs |-> r.packs, current |-> r.current]
          ELSE CollectCombined(map, r.packs, r.current, payer, max,
                  Append(collected,
                         [tx_uuid |-> Len(collected) + 1,
                          prepared_transaction |-> r.out[1]])) :
            r \in { build_next_combined(map, packs, current, payer, max) } } : TRUE

\* send_async_transaction_builder_combined: what is handed to
\* tx_transaction.send (async_transaction_builders, a Vec::new() nothing is
\* pushed to), the uuids logged as enqueued (those of execution_data), and the
\* builder afterwards.
send_async_transaction_builder_combined(map, packs, current, payer, max) ==
    LET c == CollectCombined(map, packs, current, payer, max, <<>>)
        async_transaction_builders == <<>>
    IN  [panic |-> c.panic,
         sent |-> async_transaction_builders,
         enqueuing |-> [i \in DOMAIN c.execution_data |-> c.execution_data[i].tx_uuid],
         execution_data |-> c.execution_data,
         packs |-> c.packs, current |-> c.current]

\* Completed packs a builder may hold when it is handed over: every pack has
\* one instruction, admitted under the builder's max_transaction_size.
AdmittedPacks(max) ==
    { <<<<ix, d>>>> :
        ix \in { i \in Instructions :
                    max = 0 \/ SerializedSize(NewWithPayer(<<i>>, 1)) <= max },
        d \in {None} \cup { Some(t) : t \in DescriptionTexts } }

\* The lists of completed packs of the builder handed over.
HandedOverPacks(max) == UNION { [1..n -> AdmittedPacks(max)] : n \in 0..MaxPacks }

SendInit ==
    /\ fee_payer \in FeePayers
    /\ signers = [k \in Keys |-> Keypair(k)]
    /\ max_transaction_size \in MaxSizes
    /\ \E packs \in HandedOverPacks(max_transaction_size) : instruction_packs = packs
    /\ current_instruction_pack = Some(<<>>)
    /\ result = Outcome("new", "Ok")
    /\ iter = "none"
    /\ emitted = <<>>
    /\ startPacks = <<>>
    /\ Idle

SendCombined ==
    LET r == send_async_transaction_builder_combined(
                signers, instruction_packs, current_instruction_pack, fee_payer,
                max_transaction_size)
    IN  /\ result.op = "new"
        /\ instruction_packs' = r.packs
        /\ current_instruction_pack' = r.current
        /\ result' = [Outcome("send_async_transaction_builder_combined",
                              IF r.panic THEN "panic" ELSE "Ok") EXCEPT
                        !.pre = Some(Snapshot),
                        !.out = Some([sent |-> r.sent, enqueuing |-> r.enqueuing,
                                      execution_data |-> r.execution_data])]
        /\ UNCHANGED << fee_payer, signers, max_transaction_size, iter, emitted,
                        startPacks, apart >>

SendNext == SendCombined

SendSpec == SendInit /\ [][SendNext]_vars

\* TransactionBuilderExecutionData::build -------------------------------------------

\* How the two fallible steps of build can end.
BlockhashResults == {"Ok", "Err"}

SigningResults == {"Ok", "Err"}

\* TransactionBuilderExecutionData::build for one configuration: the blockhash
\* is read first and its failure returns before anything is signed; then the
\* transaction is signed under that blockhash. attempt is the configuration the
\* build was called with.
build(priority_fee_configuration, latest_blockhash, signed) ==
    IF latest_blockhash = "Err"
    THEN [ok |-> FALSE, error |-> "blockhash", attempt |-> priority_fee_configuration]
    ELSE IF signed = "Err"
         THEN [ok |-> FALSE, error |-> "signing", attempt |-> priority_fee_configuration]
         ELSE [ok |-> TRUE, error |-> "none", attempt |-> priority_fee_configuration]

\* Spawned simulator --------------------------------------------------------------

\* A PriorityFeePolicy by the configurations its iterator yields, in order.
Policies == { <<"fee1">>, <<"fee1", "fee2">>, <<"fee1", "fee2", "fee3">> }

\* iter_priority_fee_configuration().nth(1): the second configuration, None
\* if the policy has fewer than two.
second_configuration(policy) ==
    IF Len(policy) >= 2 THEN Some(policy[2]) ELSE None

SimBatches ==
    UNION { [1..n -> { [priority_fee_policy |-> p] : p \in Policies }] :
                n \in 0..MaxEntries }

\* What simulate_transaction answers.
SimulateResults == {"Ok", "Err"}

\* spawn_transaction_simulator: the channel is empty and the loop waits in
\* recv. received counts the batches the loop has taken from the channel, log
\* has one item for every entry the loop has worked on.
SimInit ==
    /\ BuilderAtRest
    /\ seq = None /\ par = None /\ cache = None
    /\ loop = [channel |-> <<>>, closed |-> FALSE, sent |-> <<>>,
               pc |-> "recv", received |-> 0, batch |-> <<>>, index |-> 0,
               configuration |-> None, log |-> <<>>]

SimSend ==
    /\ ~loop.closed
    /\ loop.pc # "panicked"
    /\ Len(loop.sent) < MaxSimulated
    /\ can_send(loop.channel)
    /\ \E b \in SimBatches :
        loop' = [loop EXCEPT !.sent = Append(@, b), !.channel = Append(@, b)]
    /\ UNCHANGED << builderAtRest, seq, par, cache >>

SimClose ==
    /\ ~loop.closed
    /\ loop' = [loop EXCEPT !.closed = TRUE]
    /\ UNCHANGED << builderAtRest, seq, par, cache >>

\* rx_transaction.recv().await: the next batch, or None once the channel is
\* closed and empty, which ends the loop.
SimRecv ==
    /\ loop.pc = "recv"
    /\ \/ /\ loop.channel # <<>>
          /\ loop' = [loop EXCEPT !.channel = Tail(@),
                                  !.received = @ + 1,
                                  !.batch = Head(loop.channel),
                                  !.index = 0,
                                  !.pc = IF Head(loop.channel) = <<>>
                                         THEN "recv" ELSE "entry"]
       \/ /\ loop.channel = <<>>
          /\ loop.closed
          /\ loop' = [loop EXCEPT !.pc = "exited"]
    /\ UNCHANGED << builderAtRest, seq, par, cache >>

\* The entry the loop is at has been worked on with this outcome: it is
\* logged and the for loop goes on, to recv after the last entry.
SimLogged(outcome, simulated) ==
    [loop EXCEPT
        !.index = @ + 1,
        !.configuration = None,
        !.pc = IF loop.index + 1 = Len(loop.batch) THEN "recv" ELSE "entry",
        !.log = Append(@, [entry |-> loop.batch[loop.index + 1],
                           configuration |-> loop.configuration[1],
                           outcome |-> outcome,
                           simulated |-> simulated,
                           submitted |-> FALSE])]

\* The body of the for loop up to its first await: unwrap the second
\* configuration and call build, which waits for the blockhash. If there is
\* no second configuration the loop's task panics: unwinding drops
\* rx_transaction, and with it the batches still in the channel.
SimEntry ==
    LET entry == loop.batch[loop.index + 1]
        configuration == second_configuration(entry.priority_fee_policy)
    IN  /\ loop.pc = "entry"
        /\ loop' = IF configuration = None
                   THEN [loop EXCEPT !.pc = "panicked", !.channel = <<>>]
                   ELSE [loop EXCEPT !.pc = "build", !.configuration = configuration]
        /\ UNCHANGED << builderAtRest, seq, par, cache >>

\* build returns: an error is logged and the entry is over, a transaction
\* goes to simulate_transaction, which is awaited.
SimBuilt(latest_blockhash, signed) ==
    /\ loop.pc = "build"
    /\ loop' = IF build(loop.configuration[1], latest_blockhash, signed).ok
               THEN [loop EXCEPT !.pc = "simulate"]
               ELSE SimLogged("BuildErr", FALSE)
    /\ UNCHANGED << builderAtRest, seq, par, cache >>

\* simulate_transaction answers; either answer is only logged.
SimSimulated(answer) ==
    /\ loop.pc = "simulate"
    /\ loop' = SimLogged(IF answer = "Ok" THEN "SimulateOk" ELSE "SimulateErr", TRUE)
    /\ UNCHANGED << builderAtRest, seq, par, cache >>

SimNext ==
    \/ SimSend
    \/ SimClose
    \/ SimRecv
    \/ SimEntry
    \/ \E b \in BlockhashResults, sg \in SigningResults : SimBuilt(b, sg)
    \/ \E answer \in SimulateResults : SimSimulated(answer)

SimSpec == SimInit /\ [][SimNext]_vars

\* Candidate stream ----------------------------------------------------------------

next_position_ends_on_error(position, item, policy) ==
    IF item.ok THEN position + 1 ELSE Len(policy)

\* The for loop of the stream after a yield: on to the next configuration,
\* whatever the item was.
next_position(position, item, policy) == position + 1

\* The stream! block handed to execute_transaction: nothing has run yet.
\* position counts the configurations the for loop has taken, pulls the polls
\* of the executor, builds the calls of build.
StreamInit ==
    /\ BuilderUnused
    /\ seq = None /\ par = None /\ cache = None /\ loop = None /\ signing = None
    /\ \E policy \in Policies :
        stream = [priority_fee_policy |-> policy, position |-> 0,
                  pc |-> "suspended", items |-> <<>>, pulls |-> 0, builds |-> 0]

\* The executor asks for the next item: the block runs on from where it was
\* suspended, into build for the next configuration or off the end of the loop.
StreamPull ==
    /\ stream.pc = "suspended"
    /\ stream' = [stream EXCEPT
                    !.pulls = @ + 1,
                    !.builds = IF stream.position < Len(stream.priority_fee_policy)
                               THEN @ + 1 ELSE @,
                    !.pc = IF stream.position < Len(stream.priority_fee_policy)
                           THEN "building" ELSE "ended"]
    /\ UNCHANGED << builder, result, iter, emitted, startPacks, probe, seq, par,
                    cache, loop, signing >>

\* build returns and its result is yielded.
StreamYield(latest_blockhash, signed) ==
    /\ stream.pc = "building"
    /\ LET item == build(stream.priority_fee_policy[stream.position + 1],
                         latest_blockhash, signed)
       IN stream' = [stream EXCEPT
                        !.items = Append(@, item),
                        !.position = next_position(@, item,
                                                   stream.priority_fee_policy),
                        !.pc = "suspended"]
    /\ UNCHANGED << builder, result, iter, emitted, startPacks, probe, seq, par,
                    cache, loop, signing >>

StreamNext ==
    \/ StreamPull
    \/ \E b \in BlockhashResults, sg \in SigningResults : StreamYield(b, sg)

StreamSpec == StreamInit /\ [][StreamNext]_vars

\* Shareable PreparedTransaction: signing ------------------------------------------

SigningTasks == 1..MaxSigningTasks

\* SendablePreparedTransaction is Clone and a clone of a SendableSigner is a new
\* Mutex around the same Arc<dyn Signer>. Instance c has the mutexes
\* mutex[c][1..MaxSigners]; the signer behind the i-th mutex of every instance
\* is the same. Instance 1 is the one into_sendable made, the others are
\* clones, numbered as they are made.
Instances == 1..MaxInstances

\* Tasks in the middle of a clone.
Cloning == { t \in SigningTasks : signing.pc[t].step \in {"clone.lock", "clone.locked"} }

\* into_sendable: one instance, no lock held, no task in a call. instance[t]
\* is the instance the call of task t is on.
SignInit ==
    /\ BuilderUnused
    /\ seq = None /\ par = None /\ cache = None /\ loop = None /\ stream = None
    /\ signing = [instances |-> 1,
                  instance |-> [t \in SigningTasks |-> 1],
                  mutex |-> [c \in Instances |-> [i \in 1..MaxSigners |-> 0]],
                  pc |-> [t \in SigningTasks |-> [step |-> "idle", i |-> 0]]]

\* A task calls signed_transaction on an instance.
SignedTransaction(t, c) ==
    /\ signing.pc[t].step = "idle"
    /\ c <= signing.instances
    /\ signing' = [signing EXCEPT !.instance[t] = c,
                                  !.pc[t] = [step |-> "lock", i |-> 1]]
    /\ UNCHANGED << builder, result, iter, emitted, startPacks, probe, seq, par,
                    cache, loop, stream >>

\* A task calls clone() on an instance: SendableSigner::clone of its first
\* signer is next.
Clone(t, c) ==
    /\ signing.pc[t].step = "idle"
    /\ c <= signing.instances
    /\ signing.instances + Cardinality(Cloning) < MaxInstances
    /\ signing' = [signing EXCEPT !.instance[t] = c,
                                  !.pc[t] = [step |-> "clone.lock", i |-> 1]]
    /\ UNCHANGED << builder, result, iter, emitted, startPacks, probe, seq, par,
                    cache, loop, stream >>

\* SendableSigner::clone: self.signer.lock().expect(..) on the next signer of
\* the instance cloned; waits while another task holds that mutex.
CloneLock(t) ==
    LET c == signing.instance[t]
        i == signing.pc[t].i
    IN /\ signing.pc[t].step = "clone.lock"
       /\ signing.mutex[c][i] = 0
       /\ signing' = [signing EXCEPT !.mutex[c][i] = t, !.pc[t].step = "clone.locked"]
       /\ UNCHANGED << builder, result, iter, emitted, startPacks, probe, seq, par,
                       cache, loop, stream >>

\* The Arc is cloned into a new Mutex and the guard is dropped; after the last
\* signer the clone exists, with mutexes nobody holds.
CloneUnlock(t) ==
    LET c == signing.instance[t]
        i == signing.pc[t].i
    IN /\ signing.pc[t].step = "clone.locked"
       /\ signing' = [signing EXCEPT
                        !.mutex[c][i] = 0,
                        !.instances = IF i < MaxSigners THEN @ ELSE @ + 1,
                        !.pc[t] = IF i < MaxSigners
                                  THEN [step |-> "clone.lock", i |-> i + 1]
                                  ELSE [step |-> "idle", i |-> 0]]
       /\ UNCHANGED << builder, result, iter, emitted, startPacks, probe, seq, par,
                       cache, loop, stream >>

\* s.signer.lock() on the next signer of the task's instance, in the order of
\* sendable_signers; waits while another task holds that mutex.
SignerLock(t) ==
    LET c == signing.instance[t]
        i == signing.pc[t].i
    IN /\ signing.pc[t].step = "lock"
       /\ signing.mutex[c][i] = 0
       /\ signing' = [signing EXCEPT !.mutex[c][i] = t, !.pc[t].step = "locked"]
       /\ UNCHANGED << builder, result, iter, emitted, startPacks, probe, seq, par,
                       cache, loop, stream >>

\* |s| s.clone().into(): the Arc is cloned out of the guard and the guard is
\* dropped at the end of the closure; after the last signer the map is
\* collected and try_sign is next.
SignerCloneUnlock(t) ==
    LET c == signing.instance[t]
        i == signing.pc[t].i
    IN /\ signing.pc[t].step = "locked"
       /\ signing' = [signing EXCEPT
                        !.mutex[c][i] = 0,
                        !.pc[t] = IF i < MaxSigners
                                  THEN [step |-> "lock", i |-> i + 1]
                                  ELSE [step |-> "sign", i |-> 1]]
       /\ UNCHANGED << builder, result, iter, emitted, startPacks, probe, seq, par,
                       cache, loop, stream >>

\* transaction.try_sign(&signers, recent_blockhash) enters the signing call of
\* its next signer.
TrySignEnter(t) ==
    /\ signing.pc[t].step = "sign"
    /\ signing' = [signing EXCEPT !.pc[t].step = "signing"]
    /\ UNCHANGED << builder, result, iter, emitted, startPacks, probe, seq, par,
                    cache, loop, stream >>

\* The signing call returns: on to the next signer, or out of try_sign with the
\* signed transaction or with the SignerError.
TrySignReturn(t, outcome) ==
    LET i == signing.pc[t].i
    IN /\ signing.pc[t].step = "signing"
       /\ signing' = [signing EXCEPT
                        !.pc[t] = IF outcome = "Err" THEN [step |-> "Err", i |-> i]
                                  ELSE IF i < MaxSigners
                                       THEN [step |-> "sign", i |-> i + 1]
                                       ELSE [step |-> "Ok", i |-> i]]
       /\ UNCHANGED << builder, result, iter, emitted, startPacks, probe, seq, par,
                       cache, loop, stream >>

\* The methods of impl Signer for SendableSigner.
SignerMethods == {"try_pubkey", "try_sign_message", "is_interactive"}

\* A task calls a Signer method on the i-th SendableSigner of an instance:
\* self.signer.lock().unwrap() is next.
SendableSignerCall(t, c, i, method) ==
    /\ signing.pc[t].step = "idle"
    /\ c <= signing.instances
    /\ signing' = [signing EXCEPT
                    !.instance[t] = c,
                    !.pc[t] = [step |-> "signer.lock", i |-> i, method |-> method]]
    /\ UNCHANGED << builder, result, iter, emitted, startPacks, probe, seq, par,
                    cache, loop, stream >>

\* The lock is taken, waiting while another task holds that mutex, and the
\* method of the inner signer is entered with the guard alive.
SendableSignerEnter(t) ==
    LET c == signing.instance[t]
        i == signing.pc[t].i
    IN /\ signing.pc[t].step = "signer.lock"
       /\ signing.mutex[c][i] = 0
       /\ signing' = [signing EXCEPT !.mutex[c][i] = t, !.pc[t].step = "signer.call"]
       /\ UNCHANGED << builder, result, iter, emitted, startPacks, probe, seq, par,
                       cache, loop, stream >>

\* The inner signer returns and the guard is dropped with the method's return.
SendableSignerReturn(t) ==
    LET c == signing.instance[t]
        i == signing.pc[t].i
    IN /\ signing.pc[t].step = "signer.call"
       /\ signing' = [signing EXCEPT !.mutex[c][i] = 0,
                                     !.pc[t] = [step |-> "idle", i |-> 0]]
       /\ UNCHANGED << builder, result, iter, emitted, startPacks, probe, seq, par,
                       cache, loop, stream >>

SignNext ==
    \E t \in SigningTasks :
        \/ \E c \in Instances : SignedTransaction(t, c)
        \/ \E c \in Instances : Clone(t, c)
        \/ CloneLock(t)
        \/ CloneUnlock(t)
        \/ \E c \in Instances, i \in 1..MaxSigners, method \in SignerMethods :
              SendableSignerCall(t, c, i, method)
        \/ SendableSignerEnter(t)
        \/ SendableSignerReturn(t)
        \/ SignerLock(t)
        \/ SignerCloneUnlock(t)
        \/ TrySignEnter(t)
        \/ \E outcome \in SigningResults : TrySignReturn(t, outcome)

SignSpec == SignInit /\ [][SignNext]_vars

\* Bulk admission and the anchor adapter --------------------------------------------

\* The for loop of add_instructions and of add_instructions_with_description
\* from the i-th (instruction, description) on: the first admission that fails
\* returns its error through `?`, with the current pack as the calls before it
\* left it. failed_at is the position of the instruction that failed, 0 if
\* none did.
RECURSIVE AddInstructionsFrom(_, _, _, _, _, _)
AddInstructionsFrom(map, current, payer, max, described, i) ==
    IF i > Len(described)
    THEN [kind |-> "Ok", pubkey |-> None, current |-> current, failed_at |-> 0]
    ELSE LET r == add_instruction_internal(map, current, payer, max,
                                           described[i][1], described[i][2])
         IN  IF r.kind # "Ok"
             THEN [kind |-> r.kind, pubkey |-> r.pubkey, current |-> r.current,
                   failed_at |-> i]
             ELSE AddInstructionsFrom(map, r.current, payer, max, described, i + 1)

\* add_instruction passes None for the description.
Undescribed(instructions) == [i \in DOMAIN instructions |-> <<instructions[i], None>>]

\* Mutant: a failed call puts the current pack back as it found it.
add_instructions_all_or_nothing(map, current, payer, max, instructions) ==
    LET r == AddInstructionsFrom(map, current, payer, max, Undescribed(instructions), 1)
    IN  IF r.kind = "Ok" THEN r ELSE [r EXCEPT !.current = current]

add_instructions(map, current, payer, max, instructions) ==
    AddInstructionsFrom(map, current, payer, max, Undescribed(instructions), 1)

\* add_instructions_with_description: each item is (Instruction, String).
add_instructions_with_description(map, current, payer, max, instructions_with_description) ==
    AddInstructionsFrom(map, current, payer, max,
        [i \in DOMAIN instructions_with_description |->
            <<instructions_with_description[i][1],
              Some(instructions_with_description[i][2])>>], 1)

\* add_instructions_to_builder_from_anchor: request is what
\* request_builder.instructions() returns, None for its error. The pack is
\* finished only after add_instructions has returned Ok.
add_instructions_to_builder_from_anchor(map, packs, current, payer, max, request) ==
    IF request = None
    THEN [kind |-> "RequestError", pubkey |-> None, packs |-> packs,
          current |-> current, failed_at |-> 0]
    ELSE LET r == add_instructions(map, current, payer, max, request[1])
         IN  IF r.kind # "Ok"
             THEN [kind |-> r.kind, pubkey |-> r.pubkey, packs |-> packs,
                   current |-> r.current, failed_at |-> r.failed_at]
             ELSE LET f == finish_instruction_pack(packs, r.current)
                  IN  [kind |-> IF f.panic THEN "panic" ELSE "Ok", pubkey |-> None,
                       packs |-> f.packs, current |-> f.current, failed_at |-> 0]

\* The instructions of a bulk call: small ones, one with 8 bytes of data that
\* takes a pack over a limit sooner, and one whose signers are not registered.
BulkInstructions == { ix \in Instructions : \A j \in DOMAIN ix.accounts : ix.accounts[j].is_signer }

BulkLists == UNION { [1..n -> BulkInstructions] : n \in 0..MaxBulk }

DescribedBulkLists ==
    UNION { [1..n -> BulkInstructions \X DescriptionTexts] : n \in 0..MaxBulk }

\* No limit, and a limit that one small instruction fits and two may not.
BulkMaxSizes == {0, 180}

BulkInit ==
    /\ fee_payer \in FeePayers
    /\ signers = Insert(<<>>, fee_payer, Keypair(fee_payer))
    /\ instruction_packs = <<>>
    /\ current_instruction_pack = Some(<<>>)
    /\ max_transaction_size \in BulkMaxSizes
    /\ result = Outcome("new", "Ok")
    /\ iter = "none"
    /\ emitted = <<>>
    /\ startPacks = <<>>
    /\ Idle

\* transaction_builder.add_instructions(instructions)
AddInstructions(instructions) ==
    LET r == add_instructions(signers, current_instruction_pack, fee_payer,
                              max_transaction_size, instructions)
    IN  /\ Live
        /\ HeldCount + Len(instructions) <= MaxBulkHeld
        /\ current_instruction_pack' = r.current
        /\ result' = [Outcome("add_instructions", r.kind) EXCEPT
                        !.ix = Some(Undescribed(instructions)),
                        !.pubkey = r.pubkey,
                        !.pre = Some(Snapshot),
                        !.out = Some([given |-> instructions,
                                      failed_at |-> r.failed_at])]
        /\ UNCHANGED << fee_payer, signers, instruction_packs, max_transaction_size,
                        iter, emitted, startPacks, apart >>

\* transaction_builder.add_instructions_with_description(items)
AddInstructionsWithDescription(instructions_with_description) ==
    LET r == add_instructions_with_description(
                 signers, current_instruction_pack, fee_payer, max_transaction_size,
                 instructions_with_description)
        given == [i \in DOMAIN instructions_with_description |->
                    instructions_with_description[i][1]]
    IN  /\ Live
        /\ HeldCount + Len(instructions_with_description) <= MaxBulkHeld
        /\ current_instruction_pack' = r.current
        /\ result' = [Outcome("add_instructions_with_description", r.kind) EXCEPT
                        !.ix = Some([i \in DOMAIN instructions_with_description |->
                                       <<instructions_with_description[i][1],
                                         Some(instructions_with_description[i][2])>>]),
                        !.pubkey = r.pubkey,
                        !.pre = Some(Snapshot),
                        !.out = Some([given |-> given, failed_at |-> r.failed_at])]
        /\ UNCHANGED << fee_payer, signers, instruction_packs, max_transaction_size,
                        iter, emitted, startPacks, apart >>

\* add_instructions_to_builder_from_anchor(&mut transaction_builder, request_builder)
AnchorImport(request) ==
    LET r == add_instructions_to_builder_from_anchor(
                 signers, instruction_packs, current_instruction_pack, fee_payer,
                 max_transaction_size, request)
    IN  /\ Live
        /\ Len(instruction_packs) < MaxPacks
        /\ HeldCount + (IF request = None THEN 0 ELSE Len(request[1])) <= MaxBulkHeld
        /\ instruction_packs' = r.packs
        /\ current_instruction_pack' = r.current
        /\ result' = [Outcome("add_instructions_to_builder_from_anchor", r.kind) EXCEPT
                        !.ix = Some(IF request = None THEN <<>>
                                    ELSE Undescribed(request[1])),
                        !.pubkey = r.pubkey,
                        !.pre = Some(Snapshot),
                        !.out = Some([given |-> IF request = None THEN <<>>
                                                ELSE request[1],
                                      failed_at |-> r.failed_at])]
        /\ UNCHANGED << fee_payer, signers, max_transaction_size, iter, emitted,
                        startPacks, apart >>

BulkNext ==
    \/ \E instructions \in BulkLists : AddInstructions(instructions)
    \/ \E items \in DescribedBulkLists : AddInstructionsWithDescription(items)
    \/ \E instructions \in BulkLists : AnchorImport(Some(instructions))
    \/ AnchorImport(None)

BulkSpec == BulkInit /\ [][BulkNext]_vars

\* Properties ------------------------------------------------------------------

IsAdmission == result.op \in {"add_instruction", "add_instruction_with_description"}

IsBuild == result.op \in {"build_next", "build_next_combined",
                          "Sequence::next", "CombinedSequence::next"}

Emitted == IsBuild /\ result.kind = "Some"

\* The last call was an iterator's next() and yielded a transaction.
Yielded ==
    /\ result.op \in {"Sequence::next", "CombinedSequence::next"}
    /\ result.kind = "Some"

\* The builder as it was when the last call started.
Pre == result.pre[1]

PreCurrent == Pre.current_instruction_pack

BuilderUnchanged ==
    /\ instruction_packs = Pre.instruction_packs
    /\ current_instruction_pack = Pre.current_instruction_pack
    /\ signers = Pre.signers

\* The instruction the last admission call was given.
GivenIx == result.ix[1][1]

\* Positions of the is_signer accounts of ix whose key map does not hold.
UnknownAt(map, ix) ==
    { j \in DOMAIN ix.accounts :
        ix.accounts[j].is_signer /\ ix.accounts[j].pubkey \notin DOMAIN map }

Least(S) == CHOOSE x \in S : \A y \in S : x <= y

\* Size of the transaction of the current pack as it was, plus the given one.
CandidateSize ==
    SerializedSize(NewWithPayer(
        InstructionsOf(PreCurrent[1]) \o <<GivenIx>>, fee_payer))

\* C1: an admission of an instruction with an is_signer account whose key is
\* not registered fails with UnknownSigner of the first such account in
\* account order, and leaves packs, current pack and registry as they were.
C1_UnknownSignerRejected ==
    (IsAdmission /\ UnknownAt(Pre.signers, GivenIx) # {}) =>
        /\ result.kind = "UnknownSigner"
        /\ result.pubkey =
             Some(GivenIx.accounts[Least(UnknownAt(Pre.signers, GivenIx))].pubkey)
        /\ BuilderUnchanged

\* C1 witness: rejected for key 3, the first account, while key 2, the second
\* account, is not registered either.
C1_Witness ==
    /\ IsAdmission
    /\ result.kind = "UnknownSigner"
    /\ result.pubkey = Some(3)
    /\ 2 \notin DOMAIN signers
    /\ Len(current_instruction_pack[1]) > 0

\* C2 as stated: with max_size > 0 an admission fails with TooBigTransaction
\* exactly when the candidate transaction is larger than max_size.
C2_TooBigExactlyWhenOversize ==
    (IsAdmission /\ max_transaction_size > 0) =>
        (result.kind = "TooBigTransaction"
            <=> (PreCurrent # None /\ CandidateSize > max_transaction_size))

\* C2 amended: when every is_signer account is registered and a current pack
\* exists, an admission under max_size > 0 fails with TooBigTransaction exactly
\* when the candidate is larger than max_size, and then the builder is as it
\* was; an unknown signer is reported first and the size is not looked at;
\* without a current pack the call panics; under max_size = 0 no admission
\* fails for size.
C2_TooBigAfterSignerCheck ==
    IsAdmission =>
        /\ (UnknownAt(Pre.signers, GivenIx) # {}) => result.kind = "UnknownSigner"
        /\ (UnknownAt(Pre.signers, GivenIx) = {} /\ PreCurrent = None) =>
                result.kind = "panic"
        /\ (UnknownAt(Pre.signers, GivenIx) = {} /\ PreCurrent # None) =>
                /\ result.kind = "TooBigTransaction"
                     <=> (max_transaction_size > 0
                            /\ CandidateSize > max_transaction_size)
                /\ result.kind \in {"TooBigTransaction", "Ok"}
                /\ result.kind = "TooBigTransaction" => BuilderUnchanged
                /\ result.kind = "Ok" =>
                     current_instruction_pack =
                        Some(Append(PreCurrent[1], result.ix[1]))
        /\ max_transaction_size = 0 => result.kind # "TooBigTransaction"

\* C2 witness: a non-empty current pack that the given instruction would make
\* too big.
C2_Witness ==
    /\ IsAdmission
    /\ result.kind = "TooBigTransaction"
    /\ current_instruction_pack # None
    /\ Len(current_instruction_pack[1]) > 0

\* Keys of the is_signer accounts of a list of instructions.
SignerKeys(instructions) ==
    { m.pubkey : m \in { x \in Metas(instructions) : x.is_signer } }

HeldInstructions ==
    InstructionsOf(Flatten(instruction_packs)
                    \o (IF current_instruction_pack = None THEN <<>>
                        ELSE current_instruction_pack[1]))

C3_RegistryCovers ==
    /\ fee_payer \in DOMAIN signers
    /\ SignerKeys(HeldInstructions) \subseteq DOMAIN signers

\* C3: the registry always holds the fee-payer and the key of every is_signer
\* account of every instruction in the current pack or a completed pack, and
\* no step removes a registry entry.
C3_RegistryHoldsAllSigners ==
    /\ []C3_RegistryCovers
    /\ [][DOMAIN signers \subseteq DOMAIN signers']_vars

\* C3 witness: a completed pack and the current pack hold instructions signed
\* by keys 2 and 3.
C3_Witness ==
    /\ {2, 3} \subseteq SignerKeys(InstructionsOf(Flatten(instruction_packs)))
    /\ current_instruction_pack # None
    /\ {2, 3} \subseteq SignerKeys(InstructionsOf(current_instruction_pack[1]))

\* The packs the last build call found, after its implicit finish, and the
\* (instruction, description) pairs of those it removed.
PrePending ==
    Pre.instruction_packs
        \o (IF is_current_pack_empty(PreCurrent) THEN <<>> ELSE <<PreCurrent[1]>>)

Consumed == Flatten(SubSeq(PrePending, 1, result.taken))

\* C4: a build call never panics for a missing signer, and the transaction it
\* returns has N = 1 + (number of distinct is_signer keys other than the
\* fee-payer) required signatures and carries the registry's signers of the
\* first N account keys, in that order.
C4_SignersResolved ==
    /\ IsBuild => result.kind # "panic"
    /\ Emitted =>
        LET pt == result.out[1]
            n == pt.transaction.message.header.num_required_signatures
            keys == pt.transaction.message.account_keys
        IN  /\ n = Cardinality({fee_payer} \cup SignerKeys(InstructionsOf(Consumed)))
            /\ Len(pt.signers) = n
            /\ \A i \in 1..n :
                /\ keys[i] \in DOMAIN signers
                /\ pt.signers[i] = signers[keys[i]]
                /\ pt.signers[i].pubkey = keys[i]

\* C4 witness: a transaction signed by the fee-payer, 2 and 3, with a fourth
\* account key that is no signer.
C4_Witness ==
    /\ Emitted
    /\ result.out[1].transaction.message.header.num_required_signatures = 3
    /\ Len(result.out[1].transaction.message.account_keys) = 4

\* C5: under max_size > 0 every transaction an iterator yields serializes to
\* at most max_size bytes.
C5_EmittedFits ==
    (Yielded /\ max_transaction_size > 0) =>
        SerializedSize(result.out[1].transaction) <= max_transaction_size

\* An instruction as a compiled transaction still shows it: program id,
\* account keys, data.
PlainInstructions(instructions) ==
    [i \in DOMAIN instructions |->
        [program_id |-> instructions[i].program_id,
         pubkeys |-> [j \in DOMAIN instructions[i].accounts |->
                        instructions[i].accounts[j].pubkey],
         data |-> instructions[i].data]]

\* The instructions of a transaction, read back through its account keys.
TxInstructions(tx) ==
    LET keys == tx.message.account_keys
        cis == tx.message.instructions
    IN  [i \in DOMAIN cis |->
            [program_id |-> keys[cis[i].program_id_index + 1],
             pubkeys |-> [j \in DOMAIN cis[i].accounts |-> keys[cis[i].accounts[j] + 1]],
             data |-> cis[i].data]]

RECURSIVE TakenSum(_)
TakenSum(log) == IF log = <<>> THEN 0 ELSE Head(log).taken + TakenSum(Tail(log))

\* The packs of the drain's start that went into its n-th transaction.
PacksOf(n) ==
    LET before == TakenSum(SubSeq(emitted, 1, n - 1))
    IN  SubSeq(startPacks, before + 1, before + emitted[n].taken)

\* The iterator has just returned None.
Exhausted ==
    /\ result.op \in {"Sequence::next", "CombinedSequence::next"}
    /\ result.kind = "None"

InDrain == iter # "none" \/ Exhausted

\* C6: during a drain the n-th transaction holds exactly the instructions of
\* the next whole packs (at least one) after those of the transactions before
\* it, in order; the packs not yet consumed are still in the builder,
\* unmodified; and when the iterator returns None every pack was consumed.
C6_DrainKeepsPacks ==
    InDrain =>
        /\ \A n \in DOMAIN emitted :
            /\ emitted[n].taken >= 1
            /\ TxInstructions(emitted[n].prepared.transaction)
                 = PlainInstructions(InstructionsOf(Flatten(PacksOf(n))))
        /\ PendingPacks
             = SubSeq(startPacks, TakenSum(emitted) + 1, Len(startPacks))
        /\ Exhausted => TakenSum(emitted) = Len(startPacks)

\* C6 witness: a bounded combined drain that is over after two transactions:
\* the first one took two packs, the third pack did not fit and makes the
\* second one.
C6_Witness ==
    /\ Exhausted
    /\ result.op = "CombinedSequence::next"
    /\ max_transaction_size > 0
    /\ Len(emitted) = 2
    /\ emitted[1].taken = 2
    /\ Len(emitted[2].prepared.transaction.message.instructions) = 1

\* C7: a drain ends: every call of the iterator that returns a transaction
\* leaves fewer packs to consume, a call that finds none returns None, and
\* when it has returned None the builder is empty.
C7_DrainTerminates ==
    /\ [](Exhausted => is_empty(instruction_packs, current_instruction_pack))
    /\ [][(iter # "none" /\ result'.kind = "Some")
            => Len(PendingPacks') < Len(PendingPacks)]_vars
    /\ [][(iter # "none" /\ PendingPacks = <<>>) => iter' = "none"]_vars

\* C7 witness: a drain of three packs that has returned None.
C7_Witness ==
    /\ Exhausted
    /\ Len(startPacks) = 3
    /\ is_empty(instruction_packs, current_instruction_pack)

\* C8: under max_size = 0 a drain of k >= 1 packs by sequence returns k
\* transactions, the i-th with the instructions of the i-th pack, and a drain
\* by sequence_combined returns one transaction with the instructions of all
\* packs in order; then None.
C8_UnlimitedDrain ==
    (Exhausted /\ max_transaction_size = 0 /\ Len(startPacks) >= 1) =>
        IF result.op = "Sequence::next"
        THEN /\ Len(emitted) = Len(startPacks)
             /\ \A i \in DOMAIN emitted :
                    TxInstructions(emitted[i].prepared.transaction)
                        = PlainInstructions(InstructionsOf(startPacks[i]))
        ELSE /\ Len(emitted) = 1
             /\ TxInstructions(emitted[1].prepared.transaction)
                    = PlainInstructions(InstructionsOf(Flatten(startPacks)))

\* C8 witness: an unlimited combined drain of two packs of one instruction
\* each.
C8_Witness ==
    /\ Exhausted
    /\ result.op = "CombinedSequence::next"
    /\ max_transaction_size = 0
    /\ Len(startPacks) = 2
    /\ \A i \in DOMAIN startPacks : Len(startPacks[i]) = 1
    /\ Len(emitted) = 1

\* C9: after abort_instruction_pack the current pack exists and is empty, and
\* packs and registry are as before.
C9_AbortStartsFresh ==
    (result.op = "abort_instruction_pack" /\ result.kind = "Ok") =>
        /\ current_instruction_pack = Some(<<>>)
        /\ instruction_packs = Pre.instruction_packs
        /\ signers = Pre.signers

\* C10: the descriptions handed to a transaction an iterator yields are, one per
\* instruction and in order, the descriptions admitted with its instructions.
C10_DescriptionsMatch ==
    Yielded =>
        /\ Len(result.out[1].descriptions)
             = Len(result.out[1].transaction.message.instructions)
        /\ result.out[1].descriptions = DescriptionsOf(Consumed)

\* C11: every pack in the list of completed packs holds at least one
\* instruction, so no transaction an iterator yields has zero instructions.
C11_PacksNonEmpty ==
    /\ \A i \in DOMAIN instruction_packs : instruction_packs[i] # <<>>
    /\ Yielded => result.out[1].transaction.message.instructions # <<>>

\* C12: fits_single_transaction is true exactly when the transaction of all
\* accumulated instructions, completed packs then current pack, is within the
\* budget, a budget of 0 being no limit.
C12_FitsSingleTransaction ==
    Live =>
        (fits_single_transaction(instruction_packs, current_instruction_pack,
                                 fee_payer, max_transaction_size)
            <=> (max_transaction_size = 0
                 \/ SerializedSize(NewWithPayer(HeldInstructions, fee_payer))
                        <= max_transaction_size))

\* The first N account keys of the probed transaction, N its number of
\* required signatures, and the positions of those the registry lacks.
RequiredKeys ==
    SubSeq(ProbeTransaction.message.account_keys, 1,
           ProbeTransaction.message.header.num_required_signatures)

MissingAt == { i \in DOMAIN RequiredKeys : RequiredKeys[i] \notin DOMAIN signers }

\* The Result of the probe: of signers_for_transaction itself, or the one
\* PreparedTransaction::new passes on.
ProbeSigners ==
    IF probe.op = "signers_for_transaction" THEN probe.ret[1].signers
    ELSE probe.ret[1].value.signers

\* C13: signers_for_transaction returns the registry's signers of exactly the
\* first N account keys, in order, when all of them are registered; when one is
\* absent it returns, as an error value, the first missing key in account-key
\* order and no signer list; PreparedTransaction::new passes both on.
C13_SignersForTransaction ==
    probe.op # "none" =>
        IF MissingAt = {}
        THEN /\ probe.ret[1].ok
             /\ probe.ret[1].err = None
             /\ Len(ProbeSigners) = Len(RequiredKeys)
             /\ \A i \in DOMAIN RequiredKeys :
                    /\ ProbeSigners[i] = signers[RequiredKeys[i]]
                    /\ ProbeSigners[i].pubkey = RequiredKeys[i]
        ELSE /\ ~probe.ret[1].ok
             /\ probe.ret[1].err = Some(RequiredKeys[Least(MissingAt)])
             /\ ProbeSigners = <<>>

\* C13 witness: keys 2 and 3 must sign and neither is registered; the error is
\* key 2, the earlier of the two account keys.
C13_Witness ==
    /\ probe.op = "signers_for_transaction"
    /\ DOMAIN signers = {1}
    /\ RequiredKeys = <<1, 2, 3>>
    /\ probe.ret[1].err = Some(2)

\* The last call registered a signer under a key the caller chose.
IsAddSigner == result.op \in {"add_signer", "add_signer_checked"}

\* An instruction that key k must sign.
SignedBy(k) == Instruction(0, <<AccountMeta(k, TRUE, FALSE)>>, <<>>)

\* C14: the registry of a new builder holds exactly the fee-payer, and a call
\* of add_signer or add_signer_checked with a key that is registered already
\* leaves the number of entries as it was, every key registered before still
\* being accepted by the signer check.
C14_RegistryKeysUnique ==
    /\ [](result.op = "new" =>
            /\ DOMAIN signers = {fee_payer}
            /\ Cardinality(DOMAIN signers) = 1)
    /\ [][(IsAddSigner' /\ result'.pubkey[1] \in DOMAIN signers) =>
            /\ Cardinality(DOMAIN signers') = Cardinality(DOMAIN signers)
            /\ \A k \in DOMAIN signers :
                /\ contains_key(signers', k)
                /\ check_signers(signers', SignedBy(k)) = None]_vars

\* C14 witness: three keys are registered and the fee-payer, registered from
\* the start, was added once more; the registry still has three entries.
C14_Witness ==
    /\ IsAddSigner
    /\ result.pubkey = Some(fee_payer)
    /\ Cardinality(DOMAIN signers) = 3
    /\ \A k \in Keys : check_signers(signers, SignedBy(k)) = None

\* tx_uuid of the first n entries of the batch, in input order.
BatchUuids(n) == [i \in 1..n |-> seq.async_transaction_builders[i].tx_uuid]

\* Positions of the entries whose execution failed.
SeqFailed == { i \in DOMAIN seq.outcomes : seq.outcomes[i] = "Err" }

\* C15: the entries go to the executor in input order, one at a time, the
\* next one only when the one before has returned; the first failure ends the
\* batch with an error that names the uuid and the 1-based ordinal of the
\* failed entry, and no later entry goes to the executor.
C15_SequentialFailFirst ==
    /\ seq.executed = BatchUuids(Len(seq.executed))
    /\ seq.in_flight \in {0, 1}
    /\ Len(seq.executed) = Len(seq.outcomes) + seq.in_flight
    /\ \A i \in SeqFailed :
        /\ i = Len(seq.executed)
        /\ seq.in_flight = 0
        /\ seq.ret # None
        /\ ~seq.ret[1].ok
        /\ seq.ret[1].error.tx_uuid = seq.async_transaction_builders[i].tx_uuid
        /\ seq.ret[1].error.human_index = i
    /\ (seq.ret # None /\ seq.ret[1].ok) =>
        /\ SeqFailed = {}
        /\ seq.executed = BatchUuids(Len(seq.async_transaction_builders))
    /\ (seq.ret # None /\ ~seq.ret[1].ok) => SeqFailed # {}

\* C15 witness: three entries, the second fails; the third never reached the
\* executor.
C15_Witness ==
    /\ Len(seq.async_transaction_builders) = 3
    /\ seq.outcomes = <<"Ok", "Err">>
    /\ seq.ret # None
    /\ seq.ret[1].error.human_index = 2
    /\ Len(seq.executed) = 2

\* C16: in collect mode every entry goes to the executor, also after a
\* failure, and the returned aggregate has one error for each failed entry.
C16_CollectAttemptsAll ==
    seq.ret # None =>
        /\ seq.executed = BatchUuids(Len(seq.async_transaction_builders))
        /\ (seq.ret[1].ok <=> SeqFailed = {})

\* Entries whose task failed.
ParFailed == { i \in DOMAIN par.entries : par.task[i] = "Err" }

\* C17: when execute_in_parallel returns, every task has ended; it returns a
\* failure exactly when a task failed, and the aggregate then holds one error
\* for each failed entry, with that entry's uuid and 1-based ordinal. Never
\* more tasks are at the executor than the semaphore has permits.
C17_ParallelAggregates ==
    /\ Cardinality({ i \in DOMAIN par.entries : par.task[i] = "executing" })
            = par.limit - par.permits
    /\ par.permits >= 0
    /\ par.ret # None =>
        /\ \A i \in DOMAIN par.entries : par.task[i] \in ExecutorResults
        /\ par.ret[1].ok <=> ParFailed = {}
        /\ Len(par.ret[1].errors) = Cardinality(ParFailed)
        /\ \A i \in ParFailed :
            \E n \in DOMAIN par.ret[1].errors :
                /\ par.ret[1].errors[n].human_index = i
                /\ par.ret[1].errors[n].tx_uuid = par.entries[i].tx_uuid

\* C17 witness: three entries under one permit, the first and the third fail;
\* the aggregate names both.
C17_Witness ==
    /\ par.ret # None
    /\ par.limit = 1
    /\ Len(par.entries) = 3
    /\ ParFailed = {1, 3}
    /\ Len(par.ret[1].errors) = 2
    /\ par.ret[1].errors[2].human_index = 3

\* The callers of url that have returned, and those that went to the network.
Returned(url) ==
    { c \in Callers : cache.caller[c].url = url /\ cache.caller[c].pc = "done" }

Fetchers(url) ==
    { c \in Callers : cache.caller[c].url = url /\ cache.caller[c].fetched }

\* The callers of url that called before a blockhash of url was ever stored:
\* the first of them misses, the others call while its fetch is under way or
\* wait with it for the lock.
Early(url) ==
    { c \in Callers : cache.caller[c].url = url /\ cache.caller[c].early }

\* C18 as stated: of the tasks that call for one url at a time when nothing is
\* cached, with no fetch failing, one goes to the network and all get its
\* blockhash, whenever each of them is scheduled.
C18_SingleFetch ==
    \A url \in Urls :
        cache.failures[url] = 0 =>
            /\ Cardinality(Fetchers(url) \cap Early(url)) <= 1
            /\ \A c, d \in Returned(url) \cap Early(url) :
                    cache.caller[c].ret = cache.caller[d].ret

\* C18 amended: for one url, as long as no fetch has failed and no caller has
\* found the stored blockhash older than the 10 seconds of the cache, exactly
\* one caller went to the network, no two fetches ever overlap, and every
\* caller that has returned got the blockhash of that one fetch, which is the
\* one stored.
C18_SingleFetchWithinTtl ==
    /\ Cardinality({ c \in Callers : cache.caller[c].pc = "fetching" }) <= 1
    /\ \A url \in Urls :
        (cache.failures[url] = 0 /\ cache.expiries[url] = 0) =>
            /\ cache.fetches[url] <= 1
            /\ Cardinality(Fetchers(url)) = cache.fetches[url]
            /\ Returned(url) # {} =>
                /\ cache.fetches[url] = 1
                /\ url \in DOMAIN cache.store
                /\ \A c \in Returned(url) :
                        /\ cache.caller[c].ret[1].ok
                        /\ cache.caller[c].ret[1] = cache.store[url].value

\* C18 witness: three tasks called for url "a" before anything was stored;
\* all have returned, one of them fetched.
C18_Witness ==
    /\ Early("a") = Callers
    /\ Returned("a") = Callers
    /\ Cardinality(Fetchers("a")) = 1
    /\ cache.failures["a"] = 0
    /\ cache.expiries["a"] = 0

\* C19: no error is ever stored, a caller that returns an error has been to
\* the network itself, and the step on which a fetch fails leaves the cache as
\* it was, with nothing to return for that url: the next lookup of the url
\* misses, and a lookup that misses goes to the network.
C19_FailureNotCached ==
    /\ [](/\ \A url \in DOMAIN cache.store : cache.store[url].value.ok
          /\ \A c \in Callers :
                (cache.caller[c].pc = "done" /\ ~cache.caller[c].ret[1].ok)
                    => cache.caller[c].fetched)
    /\ [][\A c \in Callers :
            (cache.caller[c].pc = "fetching" /\ cache'.caller[c].pc = "done"
                /\ ~cache'.caller[c].ret[1].ok) =>
                    /\ cache'.store = cache.store
                    /\ cache_get(cache'.store, cache.caller[c].url, cache'.now) = None]_vars
    /\ [][\A c \in Callers :
            (cache.caller[c].pc = "waiting" /\ cache'.caller[c].pc # "waiting"
                /\ cache_get(cache.store, cache.caller[c].url, cache.now) = None) =>
                    /\ cache'.caller[c].pc = "fetching"
                    /\ cache'.fetches[cache.caller[c].url]
                         = cache.fetches[cache.caller[c].url] + 1]_vars

\* C19 witness: a fetch for url "a" failed and its caller got the error; the
\* next caller fetched again and got a blockhash, which is now stored.
C19_Witness ==
    /\ cache.failures["a"] = 1
    /\ cache.fetches["a"] = 2
    /\ \E c, d \in Returned("a") :
        /\ ~cache.caller[c].ret[1].ok
        /\ cache.caller[d].ret[1].ok
        /\ cache.caller[d].fetched
    /\ "a" \in DOMAIN cache.store

\* The batches whose task is executing.
Running == { b \in 1..MaxSubmitted : loop.task[b] = "running" }

\* C20: at most 4 batches are executing at any time, every executing batch
\* holds a permit it got before it started, and the permits held and the
\* permits available are 4 together.
C20_PermitsBoundBatches ==
    /\ [](/\ Cardinality(Running) <= TRANSACTIONS_IN_PARALLEL
          /\ Running = loop.holders
          /\ loop.permits >= 0
          /\ Cardinality(loop.holders) + loop.permits = TRANSACTIONS_IN_PARALLEL)
    /\ [][\A b \in 1..MaxSubmitted :
            (loop.task[b] # "running" /\ loop'.task[b] = "running") =>
                /\ loop.permits > 0
                /\ b \notin loop.holders
                /\ b \in loop'.holders]_vars

\* C20 witness: four batches are executing, no permit is left, and the loop
\* holds a fifth batch that waits for one.
C20_Witness ==
    /\ Cardinality(Running) = 4
    /\ loop.permits = 0
    /\ loop.pc = "acquire"
    /\ loop.received # None

\* C21: the channel never holds more than 2 batches; a send completes only on
\* a step that finds fewer than 2 batches queued, and a channel that holds 2
\* gets its next batch only after the loop has received one.
C21_ChannelHoldsTwo ==
    /\ [](Len(loop.channel) <= TRANSACTION_CHANNEL_SIZE)
    /\ [][loop'.sent # loop.sent =>
            /\ Len(loop.channel) < TRANSACTION_CHANNEL_SIZE
            /\ loop'.channel = Append(loop.channel, loop'.sent)]_vars
    /\ [][(Len(loop.channel) = TRANSACTION_CHANNEL_SIZE
            /\ loop'.channel # loop.channel) =>
                /\ loop'.channel = Tail(loop.channel)
                /\ loop'.received = Some(Head(loop.channel))
                /\ loop'.sent = loop.sent]_vars

\* C21 witness: two batches are queued, the loop holds a third and waits for
\* a permit, and the submitter has more to send.
C21_Witness ==
    /\ Len(loop.channel) = 2
    /\ loop.pc = "acquire"
    /\ ~loop.closed
    /\ loop.sent < MaxSubmitted

\* C22: the loop has exited only if the channel was closed and is empty, every
\* batch that was sent has been executed to its end and every permit is back;
\* and once the channel is closed the loop does exit.
C22_LoopDrainsThenExits ==
    /\ [](loop.pc = "exited" =>
            /\ loop.closed
            /\ loop.channel = <<>>
            /\ loop.received = None
            /\ Running = {}
            /\ loop.holders = {}
            /\ loop.permits = TRANSACTIONS_IN_PARALLEL
            /\ \A b \in 1..loop.sent : loop.task[b] \in {"ok", "failed", "panicked"})
    /\ (loop.closed ~> loop.pc = "exited")

\* C22 witness: the loop has exited after all the batches, one of which
\* ended in a panic and one in success.
C22_Witness ==
    /\ loop.pc = "exited"
    /\ loop.sent = MaxSubmitted
    /\ \E b, c \in 1..MaxSubmitted :
            loop.task[b] = "panicked" /\ loop.task[c] = "ok"

\* A batch has failed under exit_on_error.
Aborted == \E b \in 1..MaxSubmitted : loop.task[b] = "panicked"

\* C23: once a batch has failed under exit_on_error the process is gone: the
\* loop receives and starts nothing, and no other batch goes on to its end.
\* Without exit_on_error a failure stops nothing.
C23_ExitOnErrorAborts ==
    [][Aborted =>
        /\ loop'.received = loop.received
        /\ loop'.task = loop.task]_vars

\* C24: the batch send_async_transaction_builder_combined puts on the channel
\* holds one Execution Data for each transaction sequence_combined yielded, in
\* that order and under the uuids logged as enqueued, and the builder is left
\* empty.
C24_SendsCollected ==
    result.op = "send_async_transaction_builder_combined" =>
        /\ Len(result.out[1].sent) = Len(result.out[1].execution_data)
        /\ [i \in DOMAIN result.out[1].sent |-> result.out[1].sent[i].tx_uuid]
                = result.out[1].enqueuing
        /\ is_empty(instruction_packs, current_instruction_pack)

\* The entries of the batches the simulator has received in full, then those
\* of the batch it is working on, up to the entry it is at.
SimReceived ==
    LET inBatch == loop.pc \in {"entry", "build", "simulate", "panicked"}
    IN  Flatten(SubSeq(loop.sent, 1, loop.received - (IF inBatch THEN 1 ELSE 0)))
            \o (IF inBatch THEN SubSeq(loop.batch, 1, loop.index) ELSE <<>>)

\* C25: the simulator works on every entry of every batch it receives, in
\* order, with the second configuration of the entry's policy and through
\* simulation only; no entry stops the loop, whatever its build or its
\* simulation does, and the loop has exited only if the channel was closed.
C25_SimulatorProcessesAll ==
    /\ loop.pc # "panicked"
    /\ [i \in DOMAIN loop.log |-> loop.log[i].entry] = SimReceived
    /\ \A i \in DOMAIN loop.log :
        /\ loop.log[i].configuration = loop.log[i].entry.priority_fee_policy[2]
        /\ ~loop.log[i].submitted
    /\ loop.pc = "exited" => (loop.closed /\ loop.channel = <<>>)

\* C29: an entry whose policy has fewer than two configurations never gets
\* to the loop of the simulator, so the loop never fails on one.
C29_ShortPolicyRejectedAtSpawn ==
    /\ \A i \in DOMAIN loop.batch : Len(loop.batch[i].priority_fee_policy) >= 2
    /\ loop.pc = "panicked" => FALSE

\* C26: the candidate stream yields one item for every configuration of the
\* policy, in policy order, and ends only after the last; a candidate is built
\* only when the executor has pulled it; a failed blockhash read or signing is
\* an item at its position and the stream goes on.
C26_StreamYieldsPolicy ==
    stream # None =>
        LET policy == stream.priority_fee_policy
            items == stream.items
        IN /\ Len(items) <= Len(policy)
           /\ \A i \in 1..Len(items) : items[i].attempt = policy[i]
           /\ stream.pc = "ended" => Len(items) = Len(policy)
           /\ stream.builds = Len(items) + (IF stream.pc = "building" THEN 1 ELSE 0)
           /\ stream.builds <= stream.pulls
           /\ stream.pc = "suspended" => stream.pulls = Len(items)

C26_Witness ==
    /\ stream # None
    /\ stream.pc = "ended"
    /\ Len(stream.items) = 3
    /\ stream.items[1].error = "blockhash"
    /\ stream.items[2].error = "signing"
    /\ stream.items[3].ok

\* The task is in the signing call of a signer: from try_sign of
\* signed_transaction, or from SendableSigner::try_sign_message.
InSigningCall(t) ==
    \/ signing.pc[t].step = "signing"
    \/ /\ signing.pc[t].step = "signer.call"
       /\ signing.pc[t].method = "try_sign_message"

\* C27: while a task is in the signing call of a signer it holds that signer's
\* lock, and no two tasks are in a signing call of the same underlying signer
\* at the same time.
C27_SigningUnderLock ==
    signing # None =>
        /\ \A t \in SigningTasks :
              InSigningCall(t) =>
                  signing.mutex[signing.instance[t]][signing.pc[t].i] = t
        /\ \A t1, t2 \in SigningTasks :
              (t1 # t2 /\ InSigningCall(t1) /\ InSigningCall(t2))
                  => signing.pc[t1].i # signing.pc[t2].i

\* The last call drew a transaction from the combined packing under a positive
\* limit.
CombinedEmission ==
    /\ result.op \in {"build_next_combined", "CombinedSequence::next"}
    /\ result.kind = "Some"
    /\ max_transaction_size > 0

\* C28: with max_size > 0 every emission of the combined packing is a maximal
\* contiguous prefix of the remaining packs: it holds the oldest pack and the
\* packs right after it, in order; either no pack remains or the transaction
\* with the next pack added would be larger than max_size; and the packs not
\* taken, the rejected one first, are still in the builder as they were.
C28_MaximalPrefix ==
    CombinedEmission =>
        /\ result.taken >= 1
        /\ result.taken <= Len(PrePending)
        /\ TxInstructions(result.out[1].transaction)
             = PlainInstructions(InstructionsOf(Consumed))
        /\ instruction_packs
             = SubSeq(PrePending, result.taken + 1, Len(PrePending))
        /\ \/ result.taken = Len(PrePending)
           \/ SerializedSize(NewWithPayer(
                  InstructionsOf(Flatten(SubSeq(PrePending, 1, result.taken + 1))),
                  fee_payer)) > max_transaction_size

\* C28 witness: a combined drain took two packs into one transaction and left
\* the third, which did not fit with them.
C28_Witness ==
    /\ CombinedEmission
    /\ result.op = "CombinedSequence::next"
    /\ result.taken = 2
    /\ Len(instruction_packs) = 1

IsBulk == result.op \in {"add_instructions", "add_instructions_with_description",
                         "add_instructions_to_builder_from_anchor"}

\* The instructions the last bulk call was given, and those of them, with
\* their descriptions, it is to have appended when it failed at the k-th.
BulkGiven == result.out[1].given

BulkPrefix(k) == SubSeq(result.ix[1], 1, k - 1)

\* Admitting the i-th given instruction after the ones before it fails.
BulkFailsAt(i) ==
    \/ UnknownAt(Pre.signers, BulkGiven[i]) # {}
    \/ /\ max_transaction_size > 0
       /\ SerializedSize(NewWithPayer(
              InstructionsOf(PreCurrent[1]) \o SubSeq(BulkGiven, 1, i), fee_payer))
            > max_transaction_size

\* C30: a bulk add_instructions, or an anchor import, that fails at its k-th
\* instruction leaves exactly the first k-1 appended to the current pack, the
\* k-th and later ones absent, and the completed packs as they were (the pack
\* is not finished); an import that succeeds afterwards finishes one pack that
\* holds what the current pack held followed by its own instructions.
C30_BulkFailureKeepsPrefix ==
    /\ (IsBulk /\ result.kind \in {"UnknownSigner", "TooBigTransaction"}) =>
          LET k == result.out[1].failed_at
          IN  /\ k \in 1..Len(BulkGiven)
              /\ k = Least({ i \in 1..Len(BulkGiven) : BulkFailsAt(i) })
              /\ current_instruction_pack = Some(PreCurrent[1] \o BulkPrefix(k))
              /\ instruction_packs = Pre.instruction_packs
              /\ signers = Pre.signers
    /\ (result.op = "add_instructions_to_builder_from_anchor" /\ result.kind = "Ok") =>
          /\ instruction_packs
               = Append(Pre.instruction_packs,
                        PreCurrent[1] \o BulkPrefix(Len(BulkGiven) + 1))
          /\ current_instruction_pack = Some(<<>>)

\* C30 witness: an anchor import failed at its second instruction on a current
\* pack that already held a leftover, and left it one instruction longer.
C30_Witness ==
    /\ result.op = "add_instructions_to_builder_from_anchor"
    /\ result.kind = "TooBigTransaction"
    /\ result.out[1].failed_at = 2
    /\ Len(PreCurrent[1]) = 1
    /\ Len(current_instruction_pack[1]) = 2
    /\ instruction_packs = <<>>

====
